---- MODULE Spec2Model ----
(***************************************************************************)
(* Model of the equation-puzzle solver core of MathExpressions-Solver:     *)
(* the infix evaluator (ExpressionValidator), the right-side length        *)
(* feasibility estimate and the candidate search (CandidateGenerator) and  *)
(* the constraint derivation (Constraint).                                 *)
(*                                                                         *)
(* A C++ std::string is a sequence of one-character strings; a char is a   *)
(* one-character string.  The core is a library of synchronous calls: a    *)
(* behaviour draws the arguments of one call and then performs it.         *)
(***************************************************************************)
EXTENDS Integers, Sequences, FiniteSets, TLC

(***************************************************************************)
(* Characters                                                              *)
(***************************************************************************)
Digits == <<"0", "1", "2", "3", "4", "5", "6", "7", "8", "9">>

DigitSet == {Digits[i] : i \in 1..10}

AllOperators == {"+", "-", "*", "/", "^"}

isdigit(c) == c \in DigitSet

DigitVal(c) == (CHOOSE i \in 1..10 : Digits[i] = c) - 1

\* Magnitude at which the model's arithmetic saturates.  The program computes
\* in double.  Every left side generate evaluates stays below the cap; an
\* evaluator input above it (12^9) is held at the cap.
ValueCap == 1000000000

Saturate(v) ==
    IF v > ValueCap THEN ValueCap ELSE IF v < -ValueCap THEN -ValueCap ELSE v

Abs(v) == IF v < 0 THEN -v ELSE v

\* std::stoll on a digit string
RECURSIVE stoll(_)
stoll(s) ==
    IF s = <<>> THEN 0
    ELSE LET hi == stoll(SubSeq(s, 1, Len(s) - 1))
         IN  IF hi > (ValueCap - 9) \div 10 THEN ValueCap
             ELSE hi * 10 + DigitVal(s[Len(s)])

\* std::to_string on a non-negative long long
RECURSIVE to_string(_)
to_string(n) ==
    IF n < 10 THEN <<Digits[n + 1]>>
    ELSE Append(to_string(n \div 10), Digits[(n % 10) + 1])

(***************************************************************************)
(* ExpressionValidator.cpp : precedence, isLeftAssociative, applyOp        *)
(***************************************************************************)
Value(v) == [ok |-> TRUE, val |-> v, err |-> "none"]

Throw(e) == [ok |-> FALSE, val |-> 0, err |-> e]

precedence(op) ==
    IF op = "^" THEN 3
    ELSE IF op \in {"*", "/"} THEN 2
    ELSE IF op \in {"+", "-"} THEN 1
    ELSE 0

\* variant grouping every operator left-to-right
AllLeftAssociative(op) == TRUE

isLeftAssociative(op) == op # "^"

\* the loop  for (i = 0; i < (int)b; i++) res *= a;
RECURSIVE PowLoop(_, _, _)
PowLoop(a, i, res) ==
    IF i <= 0 THEN res
    ELSE IF a # 0 /\ Abs(res) > ValueCap \div Abs(a)
         THEN (IF (res < 0) # (a < 0) THEN -ValueCap ELSE ValueCap)
         ELSE PowLoop(a, i - 1, res * a)

\* variant without the divisibility test
AlwaysDivisible(ia, ib) == FALSE

\* line 94: ia % ib != 0
NotDivisible(ia, ib) == (Abs(ia) % Abs(ib)) # 0

\* variant without the overflow guard
NoExponentLimit(a, b) == FALSE

\* line 109: std::abs(a) > 1e6 || b > 10
ExponentTooLarge(a, b) == Abs(a) > 1000000 \/ b > 10

applyOp(a, b, op) ==
    CASE op = "+" -> Value(Saturate(a + b))
      [] op = "-" -> Value(Saturate(a - b))
      [] op = "*" ->
            IF b # 0 /\ Abs(a) > ValueCap \div Abs(b)
            THEN Value(IF (a < 0) # (b < 0) THEN -ValueCap ELSE ValueCap)
            ELSE Value(a * b)
      [] op = "/" ->
            IF b = 0 THEN Throw("Division by zero")
            ELSE IF NotDivisible(a, b)
                 THEN Throw("Non-integer division not allowed")
                 ELSE Value(IF (a < 0) # (b < 0)
                            THEN -(Abs(a) \div Abs(b))
                            ELSE Abs(a) \div Abs(b))
      [] op = "^" ->
            IF b < 0 THEN Throw("Negative exponent not supported")
            ELSE IF ExponentTooLarge(a, b)
                 THEN Throw("Exponent too large, overflow risk")
                 ELSE Value(PowLoop(a, b, 1))
      [] OTHER -> Throw("Invalid operator")

(***************************************************************************)
(* ExpressionValidator::evalExpr : shunting yard, then RPN evaluation.     *)
(* The operator stack and the value stack are sequences whose last element *)
(* is the top.  An output token is the string the code pushes.             *)
(***************************************************************************)
flushNum(output, num) == IF num # <<>> THEN Append(output, num) ELSE output

\* the inner while loop that pops operators of higher (or equal) precedence
RECURSIVE PopWhile(_, _, _, _)
PopWhile(c, output, opsStack, validOps) ==
    IF opsStack # <<>> /\ opsStack[Len(opsStack)] \in validOps
    THEN LET top == opsStack[Len(opsStack)]
         IN  IF \/ (isLeftAssociative(c) /\ precedence(c) <= precedence(top))
                \/ (~isLeftAssociative(c) /\ precedence(c) < precedence(top))
             THEN PopWhile(c, Append(output, <<top>>),
                           SubSeq(opsStack, 1, Len(opsStack) - 1), validOps)
             ELSE [output |-> output, opsStack |-> opsStack]
    ELSE [output |-> output, opsStack |-> opsStack]

RECURSIVE DrainOps(_, _)
DrainOps(output, opsStack) ==
    IF opsStack = <<>> THEN output
    ELSE DrainOps(Append(output, <<opsStack[Len(opsStack)]>>),
                  SubSeq(opsStack, 1, Len(opsStack) - 1))

\* the for loop over the characters; "invalid" is the thrown runtime_error
RECURSIVE ShuntingYard(_, _, _, _, _, _)
ShuntingYard(line, i, output, opsStack, num, validOps) ==
    IF i > Len(line)
    THEN [invalid |-> FALSE, output |-> DrainOps(flushNum(output, num), opsStack)]
    ELSE LET c == line[i]
         IN  IF isdigit(c)
             THEN ShuntingYard(line, i + 1, output, opsStack, Append(num, c), validOps)
             ELSE IF c \in validOps
                  THEN LET p == PopWhile(c, flushNum(output, num), opsStack, validOps)
                       IN  ShuntingYard(line, i + 1, p.output,
                                        Append(p.opsStack, c), <<>>, validOps)
                  ELSE [invalid |-> TRUE, output |-> <<>>]

RECURSIVE EvalRPN(_, _, _)
EvalRPN(output, i, st) ==
    IF i > Len(output)
    THEN IF Len(st) # 1 THEN Throw("Malformed RPN eval") ELSE Value(st[1])
    ELSE LET token == output[i]
         IN  IF isdigit(token[1])
             THEN EvalRPN(output, i + 1, Append(st, stoll(token)))
             ELSE IF Len(st) < 2 THEN Throw("Malformed expression")
                  ELSE LET b == st[Len(st)]
                           a == st[Len(st) - 1]
                           r == applyOp(a, b, token[1])
                       IN  IF r.ok
                           THEN EvalRPN(output, i + 1,
                                        Append(SubSeq(st, 1, Len(st) - 2), r.val))
                           ELSE r

evalExpr(line, validOps) ==
    LET sy == ShuntingYard(line, 1, <<>>, <<>>, <<>>, validOps)
    IN  IF sy.invalid THEN Throw("Invalid character in expression")
        ELSE EvalRPN(sy.output, 1, <<>>)

\* std::optional<double>: has_value() is .ok, value() is .val
safeEval(line, validOps) ==
    LET r == evalExpr(line, validOps)
    IN  IF r.ok THEN r ELSE [ok |-> FALSE, val |-> 0, err |-> "nullopt"]

(***************************************************************************)
(* CandidateGenerator::isRhsLengthFeasible.                                *)
(* A long double logarithm is carried in millionths, truncated; -INFINITY  *)
(* is NEG_INFINITY.  For the lengths of the model no sum or product of the *)
(* logarithms lies within the truncation error (or within eps = 1e-12) of  *)
(* an integer except the exact integers maxLen + log10(1) and              *)
(* maxLen + log10(10), which the tables hold exactly.                      *)
(***************************************************************************)
MICRO == 1000 * 1000

NEG_INFINITY == 0 - 1

\* saturation of a logarithm in millionths: far above every digit count compared
LogCap == 2000 * MICRO

\* log10_of_all9(len) = log10(10^len - 1)
log10_of_all9(len) ==
    CASE len <= 0 -> NEG_INFINITY
      [] len = 1 -> 954242
      [] len = 2 -> 1995635
      [] len = 3 -> 2999565
      [] len = 4 -> 3999956
      [] len = 5 -> 4999995
      [] OTHER   -> len * MICRO - 1

\* log10l((long double)m) for the block counts the model reaches
log10l(m) ==
    CASE m = 1 -> 0
      [] m = 2 -> 301029
      [] m = 3 -> 477121
      [] m = 4 -> 602059
      [] m = 5 -> 698970
      [] m = 6 -> 778151
      [] m = 7 -> 845098
      [] m = 8 -> 903089
      [] m = 9 -> 954242
      [] OTHER -> MICRO

\* powl(10, len) - 1, saturating
RECURSIVE All9(_)
All9(len) == IF len <= 0 THEN 0
             ELSE IF len >= 9 THEN ValueCap - 1
             ELSE All9(len - 1) * 10 + 9

MaxOf(a, b) == IF a > b THEN a ELSE b

MinOf(a, b) == IF a < b THEN a ELSE b

\* the dfs lambda: all ways to write remaining as parts[idx..m-1], each >= 1
RECURSIVE Compositions(_, _)
Compositions(m, remaining) ==
    IF m = 1 THEN {<<remaining>>}
    ELSE UNION {{<<x>> \o rest : rest \in Compositions(m - 1, remaining - x)} :
                x \in 1..(remaining - (m - 1))}

RECURSIVE SeqMax(_)
SeqMax(s) == IF s = <<>> THEN 0 ELSE MaxOf(Head(s), SeqMax(Tail(s)))

RECURSIVE SumLogs(_)
SumLogs(parts) ==
    IF parts = <<>> THEN 0 ELSE log10_of_all9(Head(parts)) + SumLogs(Tail(parts))

\* the loop that finds the largest (base_len) and second largest (exp_len) part
RECURSIVE BaseExpLen(_, _, _)
BaseExpLen(parts, base_len, exp_len) ==
    IF parts = <<>> THEN [base_len |-> base_len, exp_len |-> exp_len]
    ELSE LET x == Head(parts)
         IN  IF x > base_len THEN BaseExpLen(Tail(parts), x, base_len)
             ELSE IF x > exp_len THEN BaseExpLen(Tail(parts), base_len, x)
             ELSE BaseExpLen(Tail(parts), base_len, exp_len)

\* expMax * log10l(baseMax) in millionths, saturating at LogCap
MulLog(expMax, logBase) ==
    IF logBase > 0 /\ expMax > LogCap \div logBase THEN LogCap ELSE expMax * logBase

\* step 3 of the leaf: the bound for '^', or NEG_INFINITY when it adds none
PowerLog(parts) ==
    LET be == BaseExpLen(parts, 0, 0)
    IN  IF be.base_len >= 1 /\ be.exp_len >= 1
        THEN LET baseMax == All9(be.base_len)
                 expMax  == All9(be.exp_len)
                 logBase == log10_of_all9(be.base_len)
             IN  IF expMax <= 20 THEN MulLog(expMax, logBase)
                 ELSE IF expMax <= 10000 /\ baseMax <= 9 THEN MulLog(expMax, logBase)
                 ELSE MinOf(LogCap, MulLog(expMax, logBase))
        ELSE NEG_INFINITY

\* the leaf of dfs: the largest bound one composition contributes to bestLog
LeafLog(parts, m, operators) ==
    LET prodLog == IF "*" \in operators THEN SumLogs(parts) ELSE NEG_INFINITY
        addLog  == IF "+" \in operators \/ "-" \in operators
                   THEN SeqMax(parts) * MICRO + log10l(m)
                   ELSE NEG_INFINITY
        expLog  == IF "^" \in operators THEN PowerLog(parts) ELSE NEG_INFINITY
    IN  MaxOf(prodLog, MaxOf(addLog, expLog))

RECURSIVE SetMax(_)
SetMax(S) == IF S = {} THEN NEG_INFINITY
             ELSE LET x == CHOOSE y \in S : TRUE
                  IN  MaxOf(x, SetMax(S \ {x}))

\* the leaves dfs(0, sumDigits) visits for one block count m
LeafLogs(lhsLen, m, operators) ==
    LET sumDigits == lhsLen - (m - 1)
    IN  IF sumDigits < m THEN {}
        ELSE {LeafLog(parts, m, operators) : parts \in Compositions(m, sumDigits)}

\* bestLog after the loop  for (m = 1; m <= m_max; ++m)
BestLog(lhsLen, operators) ==
    LET m_max == (lhsLen + 1) \div 2
    IN  SetMax(UNION {LeafLogs(lhsLen, m, operators) : m \in 1..m_max})

isRhsLengthFeasible(lhsLen, rhsLen, operators) ==
    IF lhsLen <= 0 \/ rhsLen <= 0 THEN FALSE
    ELSE LET bestLog == BestLog(lhsLen, operators)
         IN  IF bestLog = NEG_INFINITY THEN FALSE
             ELSE LET maxDigits == (bestLog \div MICRO) + 1
                  IN  maxDigits >= rhsLen

(***************************************************************************)
(* Constraint.h / Constraint.cpp : the per-symbol constraint record,       *)
(* updateConstraint(BaseConstraint&, color, pos), processSingleGuess and   *)
(* deriveConstraints.  Positions are the 0-based indices of the code.      *)
(***************************************************************************)
OperatorSymbols == {"+", "-", "*", "/", "^", "="}

Symbols == DigitSet \cup OperatorSymbols

\* BaseConstraint's default member initialisers (maxCount = 9999)
BaseConstraint ==
    [minCount |-> 0, maxCount |-> 9999, greenPos |-> {}, bannedPos |-> {},
     hasConflict |-> FALSE,
     structure |-> [hasConflict |-> FALSE, conflictPositions |-> <<>>]]

\* positions (0-based) at which the guess shows symbol with one of the colours
ColourPos(expression, color, symbol, cols) ==
    {pos - 1 : pos \in {q \in 1..Len(expression) :
                          expression[q] = symbol /\ color[q] \in cols}}

\* variant that only notices a raised minimum
OnlyRaisedMinimum(oldMin, oldMax, newMinCandidate, newMaxCandidate) ==
    oldMin = oldMax /\ newMinCandidate > oldMin

\* lines 245-247: previouslyBounded and the candidates change the bound
Contradicts(oldMin, oldMax, newMinCandidate, newMaxCandidate) ==
    oldMin = oldMax /\ (newMinCandidate > oldMin \/ newMaxCandidate < oldMax)

\* variant that tightens the bounds of a flagged symbol as well
TightenFlagged(constraint, newMinCandidate, newMaxCandidate) ==
    [constraint EXCEPT !.hasConflict = TRUE,
                       !.minCount = MaxOf(constraint.minCount, newMinCandidate),
                       !.maxCount = MinOf(constraint.maxCount, newMaxCandidate)]

\* lines 249-251, 262-265: the flag is set and the bounds are loosened
Loosen(constraint, newMinCandidate, newMaxCandidate) ==
    [constraint EXCEPT !.hasConflict = TRUE,
                       !.minCount = MinOf(newMinCandidate, constraint.minCount),
                       !.maxCount = MaxOf(newMaxCandidate, constraint.maxCount)]

\* the second loop of processSingleGuess for one symbol: bounds and conflict
UpdateBounds(constraint, g, y, r, INF) ==
    LET oldMin == constraint.minCount
        oldMax == constraint.maxCount
        newMinCandidate == g + y
        newMaxCandidate == IF r > 0 THEN (IF g + y > 0 THEN g + y ELSE 0) ELSE INF
        conflict == constraint.hasConflict
                    \/ Contradicts(oldMin, oldMax, newMinCandidate, newMaxCandidate)
    IN  IF ~conflict
        THEN [constraint EXCEPT !.minCount = MaxOf(oldMin, newMinCandidate),
                                !.maxCount = MinOf(oldMax, newMaxCandidate)]
        ELSE Loosen(constraint, newMinCandidate, newMaxCandidate)

\* constraintsMap[charactor] creates a default entry for a symbol of the guess
\* the map does not hold yet; the second loop visits the entries of the map
processSingleGuess(expression, color, constraintsMap, INF) ==
    [symbol \in DOMAIN constraintsMap
                  \cup ({expression[q] : q \in 1..Len(expression)} \cap Symbols) |->
        LET gs == ColourPos(expression, color, symbol, {"g"})
            ys == ColourPos(expression, color, symbol, {"y"})
            rs == ColourPos(expression, color, symbol, {"r"})
            entry == IF symbol \in DOMAIN constraintsMap
                     THEN constraintsMap[symbol] ELSE BaseConstraint
            positioned == [entry EXCEPT
                              !.greenPos = @ \cup gs,
                              !.bannedPos = @ \cup ys \cup rs]
        IN  UpdateBounds(positioned, Cardinality(gs), Cardinality(ys),
                         Cardinality(rs), INF)]

\* greenSymbolFlags after one guess: positions holding a green operator or '='
GreenSymbolFlags(expression, color, flags) ==
    flags \cup {pos - 1 : pos \in {q \in 1..Len(expression) :
                                     expression[q] \in OperatorSymbols /\ color[q] = "g"}}

\* the loop over the guess-feedback pairs (a pair of the wrong length is skipped)
RECURSIVE ProcessGuesses(_, _, _, _, _, _)
ProcessGuesses(expressions, colors, i, length, constraintsMap, flags) ==
    IF i > Len(expressions) THEN [map |-> constraintsMap, flags |-> flags]
    ELSE IF Len(expressions[i]) # length \/ Len(colors[i]) # length
         THEN ProcessGuesses(expressions, colors, i + 1, length, constraintsMap, flags)
         ELSE ProcessGuesses(expressions, colors, i + 1, length,
                  processSingleGuess(expressions[i], colors[i], constraintsMap, length),
                  GreenSymbolFlags(expressions[i], colors[i], flags))

\* variant that does not look at the neighbour
AnyGreenOperator(flags, pos) == pos \in flags

\* line 330: greenSymbolFlags[pos] && greenSymbolFlags[pos - 1]
AdjacentGreens(flags, pos) == pos \in flags /\ (pos - 1) \in flags

\* the structural validation loop: adjacent green operator positions
RECURSIVE StructuralConflicts(_, _, _)
StructuralConflicts(flags, pos, length) ==
    IF pos >= length THEN <<>>
    ELSE (IF AdjacentGreens(flags, pos) THEN <<pos - 1, pos>> ELSE <<>>)
         \o StructuralConflicts(flags, pos + 1, length)

\* variant that tolerates two green positions
MoreThanTwoGreens(greenPos) == Cardinality(greenPos) > 2

\* line 347: greenPos().size() > 1
SeveralGreens(greenPos) == Cardinality(greenPos) > 1

\* variant that leaves the derived counts of '='
KeepCounts(eq) == eq

\* lines 353-354: '=' must appear exactly once
ExactlyOnce(eq) == [eq EXCEPT !.minCount = 1, !.maxCount = 1]

\* lines 328-354: the structural validation and the post-processing of '='
PostProcess(map, flags, length) ==
    LET conflictPositions == StructuralConflicts(flags, 1, length)
        structured ==
            [symbol \in Symbols |->
                IF conflictPositions = <<>> THEN map[symbol]
                ELSE [map[symbol] EXCEPT
                         !.structure = [hasConflict |-> TRUE,
                                        conflictPositions |-> conflictPositions]]]
        eq == structured["="]
        eqFixed == IF SeveralGreens(eq.greenPos)
                   THEN ExactlyOnce([eq EXCEPT !.greenPos = {}, !.hasConflict = TRUE])
                   ELSE ExactlyOnce(eq)
    IN  [structured EXCEPT !["="] = eqFixed]

deriveConstraints(expressions, colors, length) ==
    LET processed == ProcessGuesses(expressions, colors, 1, length,
                                    [symbol \in Symbols |-> BaseConstraint], {})
    IN  PostProcess(processed.map, processed.flags, length)

(***************************************************************************)
(* ConstraintUtils::isCandidateValid and its helpers.  usedCount is the    *)
(* transient counter of the record; outside a search it is 0.              *)
(***************************************************************************)
CountChar(str, ch) == Cardinality({i \in 1..Len(str) : str[i] = ch})

isCharAllowed(exprChar, constraintsMap) ==
    /\ exprChar \in DOMAIN constraintsMap
    /\ ~(constraintsMap[exprChar].minCount = 0 /\ constraintsMap[exprChar].maxCount = 0)
    /\ ~(0 >= constraintsMap[exprChar].maxCount)

isCharAllowedAtPos(exprChar, position, constraintsMap) ==
    exprChar \in DOMAIN constraintsMap
        => position \notin constraintsMap[exprChar].bannedPos

\* variant that ignores the green positions of the other symbols
AnyPositionSafe(exprChar, position, constraintsMap) == TRUE

isCharSafeAtPosition(exprChar, position, constraintsMap) ==
    \A otherChar \in DOMAIN constraintsMap :
        otherChar # exprChar => position \notin constraintsMap[otherChar].greenPos

isCandidateValid(line, constraintsMap) ==
    /\ \A p \in 1..Len(line) :
          /\ isCharAllowed(line[p], constraintsMap)
          /\ isCharAllowedAtPos(line[p], p - 1, constraintsMap)
          /\ isCharSafeAtPosition(line[p], p - 1, constraintsMap)
    /\ \A exprChar \in DOMAIN constraintsMap :
          LET appearCount == CountChar(line, exprChar)
          IN  ~(appearCount < constraintsMap[exprChar].minCount
                \/ appearCount > constraintsMap[exprChar].maxCount)

(***************************************************************************)
(* CandidateGenerator::matchesFeedback (the three-argument member).        *)
(* cCount is the unordered_map<char,int>; a missing key counts as 0.       *)
(***************************************************************************)
\* the character 0: no character required at a position, the end of a string
NoChar == ""

CharsOf(str) == {str[i] : i \in 1..Len(str)}

\* std::string::operator[] at 0-based index i - 1: the character, or the
\* terminator at the end of the string
CharAt(str, i) == IF i <= Len(str) THEN str[i] ELSE NoChar

\* a red cell of the guess is accepted when no unconsumed occurrence is left
RedAccepts(candidate, expression, i, cCount) == cCount[CharAt(expression, i)] <= 0

RECURSIVE GreenPass(_, _, _, _, _)
GreenPass(candidate, expression, color, i, cCount) ==
    IF i > Len(candidate) THEN [ok |-> TRUE, cCount |-> cCount]
    ELSE IF CharAt(color, i) = "g"
         THEN IF candidate[i] # CharAt(expression, i)
              THEN [ok |-> FALSE, cCount |-> cCount]
              ELSE GreenPass(candidate, expression, color, i + 1,
                             [cCount EXCEPT ![expression[i]] = @ - 1])
         ELSE GreenPass(candidate, expression, color, i + 1, cCount)

RECURSIVE YellowPass(_, _, _, _, _)
YellowPass(candidate, expression, color, i, cCount) ==
    IF i > Len(candidate) THEN [ok |-> TRUE, cCount |-> cCount]
    ELSE IF CharAt(color, i) = "y"
         THEN IF candidate[i] = CharAt(expression, i)
                 \/ cCount[CharAt(expression, i)] <= 0
              THEN [ok |-> FALSE, cCount |-> cCount]
              ELSE YellowPass(candidate, expression, color, i + 1,
                              [cCount EXCEPT ![CharAt(expression, i)] = @ - 1])
         ELSE YellowPass(candidate, expression, color, i + 1, cCount)

RedPass(candidate, expression, color, cCount) ==
    \A i \in 1..Len(candidate) :
        CharAt(color, i) = "r" => RedAccepts(candidate, expression, i, cCount)

matchesFeedback(candidate, expression, color) ==
    LET cCount0 == [ch \in CharsOf(candidate) \cup CharsOf(expression) \cup {NoChar} |->
                       CountChar(candidate, ch)]
        green == GreenPass(candidate, expression, color, 1, cCount0)
    IN  /\ green.ok
        /\ LET yellow == YellowPass(candidate, expression, color, 1, green.cCount)
           IN  yellow.ok /\ RedPass(candidate, expression, color, yellow.cCount)

(***************************************************************************)
(* CandidateGenerator::generateLeftTokens.  The lambdas capture lhsLen,    *)
(* operators, requiredAtPos, allowed and the constraint map: the record cx.*)
(* current and remainingMin are mutated and restored around every call, so *)
(* each call receives their value; a call returns the left sides it pushed *)
(* on lhsCandidates, in order.  The operators are visited in OpOrder (the  *)
(* iteration order of the unordered_set is the implementation's).          *)
(* safeEval runs on the validator of the generator, whose operator set the *)
(* caller sets to the operators of the call (setValidOps): cx.validOps.    *)
(***************************************************************************)
OpOrder == <<"+", "-", "*", "/", "^">>

\* the concatenation ss[lo] \o ... \o ss[hi]
RECURSIVE ConcatRange(_, _, _)
ConcatRange(ss, lo, hi) ==
    IF lo > hi THEN <<>>
    ELSE IF lo = hi THEN ss[lo]
    ELSE LET mid == (lo + hi) \div 2
         IN  ConcatRange(ss, lo, mid) \o ConcatRange(ss, mid + 1, hi)

ConcatAll(ss) == ConcatRange(ss, 1, Len(ss))

\* requiredAtPos: the symbol whose greenPos holds the position
RequiredAtPos(lhsLen, constraintsMap) ==
    [p \in 1..lhsLen |->
        LET owners == {ch \in DOMAIN constraintsMap : (p - 1) \in constraintsMap[ch].greenPos}
        IN  IF owners = {} THEN NoChar ELSE CHOOSE ch \in owners : TRUE]

\* variant refusing every operator after a one-character prefix
AnyOperatorRule(expr, nextOp) == Len(expr) = 1

\* the rule of checkOperatorValidity on a one-character prefix
FirstNumberRule(expr, nextOp) == Len(expr) = 1 /\ nextOp \in {"*", "/", "^"}

checkOperatorValidity(cx, expr, nextOp) ==
    IF expr = <<>> THEN nextOp \in {"+", "-"}
    ELSE LET last == expr[Len(expr)]
         IN  IF FirstNumberRule(expr, nextOp) THEN FALSE
             ELSE IF last \in cx.operators THEN FALSE
             ELSE IF last = "^" /\ nextOp = "^" THEN FALSE
             ELSE LET valOpt == safeEval(expr, cx.validOps)
                  IN  IF ~valOpt.ok THEN FALSE
                      ELSE IF nextOp = "/" /\ valOpt.val = 0 THEN FALSE
                      ELSE IF valOpt.val < 0 THEN FALSE
                      ELSE TRUE

isCharAllowedAt(cx, current, ch, pos) ==
    IF pos >= 0 /\ pos < cx.lhsLen /\ cx.requiredAtPos[pos + 1] # NoChar
       /\ cx.requiredAtPos[pos + 1] # ch
    THEN FALSE
    ELSE LET allowedPos ==
                 ~(cx.useAllowed /\ pos < Len(cx.allowed)
                   /\ cx.allowed[pos + 1] # {} /\ ch \notin cx.allowed[pos + 1])
             con == cx.map[ch]
             used == CountChar(current, ch)
             passedMax == ~(con.maxCount = 0 \/ used >= con.maxCount)
             passedBan == pos \notin con.bannedPos
         IN  allowedPos /\ passedMax /\ passedBan

\* line 442: a number of several digits does not start with '0'
SkipLeadingZero(idx, numLen, d) == idx = 0 /\ numLen > 1 /\ d = "0"

\* the candidates vector of buildNumber at one digit position
DigitCandidates(cx, current, pos, numLen, idx) ==
    LET absolutePos == pos + idx
        candidates == SelectSeq(Digits,
                         LAMBDA d : ~SkipLeadingZero(idx, numLen, d)
                                    /\ isCharAllowedAt(cx, current, d, absolutePos))
        required == cx.requiredAtPos[absolutePos + 1]
    IN  IF absolutePos >= 0 /\ absolutePos < cx.lhsLen /\ required # NoChar
        THEN (IF \E k \in 1..Len(candidates) : candidates[k] = required
              THEN <<required>> ELSE <<>>)
        ELSE candidates

\* line 402: a finished left side is pushed only if it holds an operator
PushComplete(hasOperator, current) == IF hasOperator THEN <<current>> ELSE <<>>

\* line 394: a number that leaves exactly one character is not tried
SkipNumLen(after) == after = 1

RECURSIVE genTokens(_, _, _, _, _, _)
RECURSIVE buildNumber(_, _, _, _, _, _, _)

genTokens(cx, pos, expectNumber, hasOperator, current, remainingMin) ==
    LET remaining == cx.lhsLen - pos
    IN  IF remaining <= 0
        THEN (IF ~expectNumber /\ hasOperator THEN <<current>> ELSE <<>>)
        ELSE IF \E ch \in DOMAIN remainingMin : remainingMin[ch] > remaining
        THEN <<>>
        ELSE ConcatAll([numLen \in 1..remaining |->
                 IF SkipNumLen(remaining - numLen) THEN <<>>
                 ELSE buildNumber(cx, pos, numLen, 0, hasOperator, current,
                                  remainingMin)])

buildNumber(cx, pos, numLen, idx, hasOperator, current, remainingMin) ==
    LET after == (cx.lhsLen - pos) - numLen
    IN  IF idx = numLen
        THEN IF after = 0 THEN PushComplete(hasOperator, current)
             ELSE LET opPos == pos + numLen
                  IN  ConcatAll([k \in 1..Len(OpOrder) |->
                          LET op == OpOrder[k]
                          IN  IF op \notin cx.operators THEN <<>>
                              ELSE IF ~isCharAllowedAt(cx, current, op, opPos) THEN <<>>
                              ELSE IF ~checkOperatorValidity(cx, current, op) THEN <<>>
                              ELSE IF cx.requiredAtPos[opPos + 1] # NoChar
                                      /\ cx.requiredAtPos[opPos + 1] # op
                                   THEN <<>>
                              ELSE genTokens(cx, opPos + 1, TRUE, TRUE,
                                             Append(current, op), remainingMin)])
        ELSE LET candidates == DigitCandidates(cx, current, pos, numLen, idx)
             IN  IF pos + numLen = cx.lhsLen /\ ~hasOperator THEN <<>>
                 ELSE ConcatAll([k \in 1..Len(candidates) |->
                          LET ch == candidates[k]
                              pushed == Append(current, ch)
                              valOpt == safeEval(pushed, cx.validOps)
                          IN  IF valOpt.ok /\ valOpt.val < 0 THEN <<>>
                              ELSE buildNumber(cx, pos, numLen, idx + 1, hasOperator,
                                       pushed,
                                       [remainingMin EXCEPT ![ch] = @ - 1])])

generateLeftTokens(lhsLen, operators, allowed, useAllowed, lhsConstraintsMap, validOps) ==
    LET cx == [lhsLen |-> lhsLen, operators |-> operators, validOps |-> validOps,
               allowed |-> allowed, useAllowed |-> useAllowed,
               map |-> lhsConstraintsMap,
               requiredAtPos |-> RequiredAtPos(lhsLen, lhsConstraintsMap)]
        remainingMin == [ch \in DOMAIN lhsConstraintsMap |->
                            lhsConstraintsMap[ch].minCount]
    IN  genTokens(cx, 0, TRUE, FALSE, <<>>, remainingMin)

(***************************************************************************)
(* analyzeGuessConflicts and CandidateGenerator::generate                  *)
(***************************************************************************)
NoEqPos == 0 - 1

\* positions where some guess shows a green '='
GreenEqPositions(guesses, feedbacks) ==
    UNION {ColourPos(guesses[i], feedbacks[i], "=", {"g"}) : i \in 1..Len(guesses)}

\* GuessConflictInfo.fixedEqPos / eqPosConsistent
analyzeGuessConflicts(guesses, feedbacks) ==
    LET eqPositions == GreenEqPositions(guesses, feedbacks)
    IN  [fixedEqPos |-> IF Cardinality(eqPositions) = 1
                        THEN CHOOSE j \in eqPositions : TRUE ELSE NoEqPos,
         eqPosConsistent |-> ~(Cardinality(eqPositions) > 1),
         hasGreenConflict |->
            \E p \in 1..(IF guesses = <<>> THEN 0 ELSE Len(guesses[1])) :
                Cardinality({guesses[i][p] : i \in {k \in 1..Len(guesses) :
                                 p <= Len(guesses[k]) /\ feedbacks[k][p] = "g"}}) > 1]

\* the loop "find green '='": the first green '=' of the earliest guess showing one
RECURSIVE FindGreenEq(_, _, _, _)
FindGreenEq(expressions, colors, i, fixedEqPos) ==
    IF i > Len(expressions) THEN fixedEqPos
    ELSE LET found == ColourPos(expressions[i], colors[i], "=", {"g"})
             here == IF found = {} THEN fixedEqPos
                     ELSE CHOOSE j \in found : \A k \in found : j <= k
         IN  IF here # NoEqPos THEN here
             ELSE FindGreenEq(expressions, colors, i + 1, here)

\* eqPositions: the fixed index, or length-2 down to 3
EqPositions(length, fixedEqPos) ==
    IF fixedEqPos # NoEqPos THEN <<fixedEqPos>>
    ELSE [k \in 1..MaxOf(0, length - 4) |-> length - 1 - k]

\* allowedPerPos: the green symbols of each position
AllowedPerPos(length, expressions, colors) ==
    [p \in 1..length |->
        {expressions[i][p] : i \in {k \in 1..Len(expressions) : colors[k][p] = "g"}}]

\* the adjustment of minCount by the room the right side offers
AdjustMinCount(constraintsMap, rhsLen) ==
    [ch \in DOMAIN constraintsMap |->
        [constraintsMap[ch] EXCEPT !.minCount = MaxOf(0, @ - rhsLen)]]

\* lines 624-628: a negative left-side value is dropped
RejectNegative(lhsResult) == lhsResult < 0

\* variant without the length test
RhsAnyLength(rhs, rhsLen) == TRUE

\* line 631: the right side has the length the '=' position leaves
RhsFits(rhs, rhsLen) == Len(rhs) = rhsLen

\* variant in which a failed evaluation is not caught
EvalNeverFails(r) == FALSE

\* lines 614-622: evalExpr threw, the catch block continues with the next lhs
EvalFailed(r) == ~r.ok

\* the body of the loop over lhsCandidates: the accepted candidate, if any
AcceptCandidate(lhs, rhsLen, expressions, colors, validOps) ==
    LET r == evalExpr(lhs, validOps)
    IN  IF EvalFailed(r) THEN <<>>
        ELSE IF RejectNegative(r.val) THEN <<>>
        ELSE LET rhs == to_string(r.val)
             IN  IF ~RhsFits(rhs, rhsLen) THEN <<>>
                 ELSE LET candidate == lhs \o <<"=">> \o rhs
                      IN  IF \A i \in 1..Len(expressions) :
                                 matchesFeedback(candidate, expressions[i], colors[i])
                          THEN <<candidate>> ELSE <<>>

\* the gate of lines 582-586
GateOpen(lhsLen, rhsLen, operators) == isRhsLengthFeasible(lhsLen, rhsLen, operators)

\* one iteration of the loop over eqPositions
SearchEqPos(eqPos, length, operators, expressions, colors, constraintsMap, allowedPerPos, useAllowed, validOps) ==
    LET lhsLen == eqPos
        rhsLen == length - eqPos - 1
    IN  IF ~GateOpen(lhsLen, rhsLen, operators)
        THEN [lhsCandidates |-> <<>>, finalCandidates |-> <<>>]
        ELSE LET lhsAllowed == [i \in 1..lhsLen |->
                                   IF useAllowed THEN allowedPerPos[i] ELSE {}]
                 lhsCandidates ==
                     generateLeftTokens(lhsLen, operators, lhsAllowed, useAllowed,
                                        AdjustMinCount(constraintsMap, rhsLen), validOps)
             IN  [lhsCandidates |-> lhsCandidates,
                  finalCandidates |->
                     ConcatAll([k \in 1..Len(lhsCandidates) |->
                         AcceptCandidate(lhsCandidates[k], rhsLen, expressions,
                                         colors, validOps)])]

generate(length, operators, expressions, colors, validOps) ==
    LET allowedPerPos == AllowedPerPos(length, expressions, colors)
        useAllowed == \E p \in 1..length : allowedPerPos[p] # {}
        constraintsMap == deriveConstraints(expressions, colors, length)
        conflict == analyzeGuessConflicts(expressions, colors)
        fixedEqPos == FindGreenEq(expressions, colors, 1, conflict.fixedEqPos)
        eqPositions == EqPositions(length, fixedEqPos)
        perEq == [k \in 1..Len(eqPositions) |->
                     SearchEqPos(eqPositions[k], length, operators, expressions,
                                 colors, constraintsMap, allowedPerPos, useAllowed,
                                 validOps)]
    IN  [lhsCandidates |-> ConcatAll([k \in 1..Len(perEq) |-> perEq[k].lhsCandidates]),
         finalCandidates |-> ConcatAll([k \in 1..Len(perEq) |-> perEq[k].finalCandidates]),
         eqPositions |-> eqPositions]

(***************************************************************************)
(* Reference notions the properties are stated with: the feedback a guess  *)
(* receives against a secret, the value of a flat expression by its        *)
(* grammar, and the well-formed equations of a length.                     *)
(***************************************************************************)
Range(seq) == {seq[i] : i \in 1..Len(seq)}

\* yellow pass of the feedback rule, left to right; left[ch] = unconsumed count
RECURSIVE FeedbackFrom(_, _, _, _)
FeedbackFrom(secret, guess, i, left) ==
    IF i > Len(guess) THEN <<>>
    ELSE IF guess[i] = secret[i]
         THEN <<"g">> \o FeedbackFrom(secret, guess, i + 1, left)
         ELSE IF left[guess[i]] > 0
              THEN <<"y">> \o FeedbackFrom(secret, guess, i + 1,
                                           [left EXCEPT ![guess[i]] = @ - 1])
              ELSE <<"r">> \o FeedbackFrom(secret, guess, i + 1, left)

\* green where equal; yellow while an occurrence not consumed by a green or an
\* earlier yellow remains; red otherwise
Feedback(secret, guess) ==
    FeedbackFrom(secret, guess, 1,
        [ch \in CharsOf(secret) \cup CharsOf(guess) |->
            Cardinality({i \in 1..Len(secret) : secret[i] = ch /\ guess[i] # ch})])

\* digit strings of k characters that are numbers: no leading 0, not the bare 0
RECURSIVE DigitStrings(_)
DigitStrings(k) ==
    IF k = 0 THEN {<<>>}
    ELSE {Append(s, d) : s \in DigitStrings(k - 1), d \in DigitSet}

Numbers(k) == {s \in DigitStrings(k) : s[1] # "0"}

\* number (operator number)* of exactly n characters
RECURSIVE Chains(_, _)
Chains(n, ops) ==
    IF n <= 0 THEN {}
    ELSE Numbers(n) \cup
         UNION {{num \o <<op>> \o rest :
                   num \in Numbers(k), op \in ops, rest \in Chains(n - k - 1, ops)} :
                k \in 1..(n - 2)}

\* left sides: at least one operator
WellFormedLhs(n, ops) == Chains(n, ops) \ Numbers(n)

\* the equations LHS=RHS of a length whose left side evaluates to the right side
ValidEquations(len, ops) ==
    UNION {{lhs \o <<"=">> \o to_string(evalExpr(lhs, ops).val) :
              lhs \in {l \in WellFormedLhs(eqPos, ops) :
                         LET r == evalExpr(l, ops)
                         IN  /\ r.ok /\ r.val >= 0
                             /\ Len(to_string(r.val)) = len - eqPos - 1}} :
           eqPos \in 3..(len - 2)}

(***************************************************************************)
(* The calls.  Arguments are drawn from bounded sets.                      *)
(***************************************************************************)
MaxLength == 7

MaxGuesses == 1

Lengths == 5..MaxLength

OperatorSets == {{"+"}, {"+", "-"}, {"*"}, {"/"}, {"-", "/"}, {"+", "*"}}

\* equations a player may enter as guesses (isValidExpression accepts them)
GuessPool ==
    {<<"1", "+", "2", "=", "3">>, <<"4", "-", "2", "=", "2">>,
     <<"2", "*", "3", "=", "6">>, <<"8", "/", "4", "=", "2">>,
     <<"1", "2", "-", "3", "=", "9">>, <<"5", "+", "5", "=", "1", "0">>,
     <<"1", "0", "/", "5", "=", "2">>, <<"1", "+", "2", "+", "3", "=", "6">>,
     <<"9", "-", "4", "/", "2", "=", "7">>}

\* secrets are all the equations of a length up to MaxSecretLength, and the
\* listed ones above it
MaxSecretLength == 6

LongSecrets ==
    {<<"1", "+", "2", "+", "3", "=", "6">>, <<"3", "+", "2", "+", "1", "=", "6">>,
     <<"2", "+", "3", "+", "4", "=", "9">>, <<"1", "2", "+", "3", "=", "1", "5">>,
     <<"9", "-", "4", "/", "2", "=", "7">>, <<"8", "/", "2", "-", "4", "=", "0">>,
     <<"9", "-", "3", "-", "2", "=", "4">>, <<"2", "4", "/", "2", "=", "1", "2">>}

UsesOnly(str, ops) == CharsOf(str) \subseteq (DigitSet \cup ops \cup {"="})

\* secrets the feedback of a history is computed against
SecretPool(len, ops) ==
    IF len <= MaxSecretLength THEN ValidEquations(len, ops)
    ELSE {e \in LongSecrets : Len(e) = len /\ UsesOnly(e, ops)}

\* histories of n guesses of one length, with the feedback one secret gives
Histories(len, ops, n) ==
    LET pool == {g \in GuessPool : Len(g) = len /\ UsesOnly(g, ops)}
    IN  IF n = 0 THEN {[expressions |-> <<>>, colors |-> <<>>]}
        ELSE IF pool = {} THEN {}
        ELSE {[expressions |-> gs,
               colors |-> [i \in 1..n |-> Feedback(secret, gs[i])]] :
                 gs \in [1..n -> pool], secret \in SecretPool(len, ops)}

\* the colour string that shows only the '=' of a guess green
EqOnlyGreen(guess) ==
    [p \in 1..Len(guess) |-> IF guess[p] = "=" THEN "g" ELSE "r"]

\* contradictory histories: two guesses whose '=' sit at different positions,
\* both shown green
ConflictingHistories(len, ops) ==
    LET pool == {g \in GuessPool : Len(g) = len /\ UsesOnly(g, ops)}
    IN  {[expressions |-> <<a, b>>,
          colors |-> <<EqOnlyGreen(a), EqOnlyGreen(b)>>] :
            <<a, b>> \in {pr \in pool \X pool :
                            \E p \in 1..len : pr[1][p] = "=" /\ pr[2][p] # "="}}

VARIABLES
    pc,                \* position of the caller: which call is pending or done
    ValidOperatorsSet, \* ExpressionValidator::ValidOperatorsSet (setValidOps)
    exprLine,          \* argument of evalExpr
    opArgs,            \* arguments <<a, b, op>> of applyOp
    evalResult,        \* what evalExpr / applyOp returned or threw
    length,            \* generate: expLength
    operators,         \* generate / isRhsLengthFeasible: operatorsSet
    expressions,       \* generate: the guessed expressions
    colors,            \* generate: their colour strings
    lhsCandidates,     \* generate: the left sides the search produced
    finalCandidates,   \* generate: the returned vector
    lhsLength,         \* isRhsLengthFeasible: lhsLen
    rhsLength,         \* isRhsLengthFeasible: rhsLen
    feasible,          \* isRhsLengthFeasible: the returned bool
    constraintsMap,    \* deriveConstraints: the returned map
    eqPositions,       \* generate: the '=' indices the search visits
    guessIndex,        \* deriveConstraints: number of pairs the loop has taken
    greenSymbolFlags,  \* deriveConstraints: positions flagged as green operator
    matched,           \* matchesFeedback (Constraint.cpp): the returned bool
    logSource,         \* which of the two LogFileManager.cpp is compiled
    silentMode,        \* LogFileManager::silentMode
    ofsOpen,           \* LogFileManager::ofs_.is_open()
    logFile,           \* the content of the log file, entry by entry
    logLine,           \* LogFileManager::Write: the argument of the last call
    roundHistory,          \* GameRoundState::roundHistory
    initialCandidatesList, \* GameRoundState::initialCandidatesList
    currentCandidatesList, \* RoundManager::currentCandidatesList
    undoPoint,             \* the caller's copy of the state before the last guess
    current,           \* generateLeftTokens: the token buffer
    remainingMin,      \* generateLeftTokens: the remaining-minimum counters
    stack,             \* generateLeftTokens: the pending genTokens / buildNumber calls
    searchStep         \* generateLeftTokens: what the last step of the search did

\* the arguments and results of the calls
callVars == <<ValidOperatorsSet, exprLine, opArgs, evalResult, length, operators,
              expressions, colors, lhsCandidates, finalCandidates, lhsLength,
              rhsLength, feasible, constraintsMap, eqPositions>>

deriveStepVars == <<guessIndex, greenSymbolFlags>>

feedbackVars == <<matched>>

logVars == <<logSource, silentMode, ofsOpen, logFile, logLine>>

roundVars == <<roundHistory, initialCandidatesList, currentCandidatesList, undoPoint>>

searchVars == <<current, remainingMin, stack, searchStep>>

\* the variables the calls of the evaluator, the estimate, generate and
\* deriveConstraints do not touch
otherVars == <<deriveStepVars, feedbackVars, logVars, roundVars, searchVars>>

vars == <<pc, ValidOperatorsSet, exprLine, opArgs, evalResult, length, operators,
          expressions, colors, lhsCandidates, finalCandidates, lhsLength,
          rhsLength, feasible, constraintsMap, eqPositions, otherVars>>

\* the loop of deriveConstraints has not started
NoDeriveSteps == guessIndex = 0 /\ greenSymbolFlags = {}

\* matchesFeedback has not returned
NoFeedback == matched = FALSE

\* LogFileManager's static members: silentMode = false, the stream closed
NoLog ==
    /\ logSource = "core/logging/LogFileManager.cpp"
    /\ silentMode = FALSE /\ ofsOpen = FALSE
    /\ logFile = <<>> /\ logLine = ""

\* a RoundManager before its first round
NoRound ==
    /\ roundHistory = <<>>
    /\ initialCandidatesList = <<>> /\ currentCandidatesList = <<>>
    /\ undoPoint = <<>>

\* no search of left sides is running
NoSearch ==
    /\ current = <<>> /\ remainingMin = <<>>
    /\ stack = <<>> /\ searchStep = "idle"

\* the value of those variables while the other components are not in use
Elsewhere == NoDeriveSteps /\ NoFeedback /\ NoLog /\ NoRound /\ NoSearch

NoResult == [ok |-> FALSE, val |-> 0, err |-> "pending"]

\* the map before any call of deriveConstraints
NoConstraints == [symbol \in Symbols |-> BaseConstraint]

\* no call pending: the arguments and results of the calls at rest
NoCall ==
    /\ ValidOperatorsSet = {} /\ exprLine = <<>>
    /\ opArgs = <<0, 0, "+">> /\ evalResult = NoResult
    /\ length = 0 /\ operators = {} /\ expressions = <<>> /\ colors = <<>>
    /\ lhsCandidates = <<>> /\ finalCandidates = <<>>
    /\ lhsLength = 0 /\ rhsLength = 0 /\ feasible = FALSE
    /\ constraintsMap = NoConstraints /\ eqPositions = <<>>

InitGenerate ==
    /\ pc = "generate"
    /\ length \in Lengths
    /\ operators \in OperatorSets
    /\ \E h \in UNION {Histories(length, operators, n) : n \in 0..MaxGuesses}
                 \cup ConflictingHistories(length, operators) :
            /\ expressions = h.expressions
            /\ colors = h.colors
    /\ ValidOperatorsSet = operators
    /\ exprLine = <<>> /\ opArgs = <<0, 0, "+">> /\ evalResult = NoResult
    /\ lhsCandidates = <<>> /\ finalCandidates = <<>>
    /\ lhsLength = 0 /\ rhsLength = 0 /\ feasible = FALSE
    /\ constraintsMap = NoConstraints /\ eqPositions = <<>>
    /\ Elsewhere

Generate ==
    /\ pc = "generate"
    /\ \E res \in {generate(length, operators, expressions, colors, ValidOperatorsSet)} :
          /\ lhsCandidates' = res.lhsCandidates
          /\ finalCandidates' = res.finalCandidates
          /\ eqPositions' = res.eqPositions
    /\ pc' = "generated"
    /\ UNCHANGED <<ValidOperatorsSet, exprLine, opArgs, evalResult, length, operators,
                   expressions, colors, lhsLength, rhsLength, feasible,
                   constraintsMap>>
    /\ UNCHANGED otherVars

\* operands and expressions handed to the evaluator
MaxOperands == 3

OperandPool == {<<"0">>, <<"2">>, <<"3">>, <<"1", "2">>}

RECURSIVE FlatExpressions(_)
FlatExpressions(n) ==
    IF n = 1 THEN OperandPool
    ELSE {e \o <<op>> \o num :
            e \in FlatExpressions(n - 1), op \in AllOperators, num \in OperandPool}

\* a base on either side of the exponent guard's limit
LargeBases == {<<"1", "0", "0", "0", "0", "0", "0">>, <<"1", "0", "0", "0", "0", "0", "1">>}

EvalInputs == UNION {FlatExpressions(n) : n \in 1..MaxOperands}
              \cup {<<"8", "/", "2">>, <<"7", "/", "2">>}
              \cup {base \o <<"^">> \o e : base \in LargeBases, e \in OperandPool}

InitEvalExpr ==
    /\ pc = "evalExpr"
    /\ ValidOperatorsSet = AllOperators
    /\ exprLine \in EvalInputs
    /\ opArgs = <<0, 0, "+">> /\ evalResult = NoResult
    /\ length = 0 /\ operators = {} /\ expressions = <<>> /\ colors = <<>>
    /\ lhsCandidates = <<>> /\ finalCandidates = <<>>
    /\ lhsLength = 0 /\ rhsLength = 0 /\ feasible = FALSE
    /\ constraintsMap = NoConstraints /\ eqPositions = <<>>
    /\ Elsewhere

EvalExpr ==
    /\ pc = "evalExpr"
    /\ evalResult' = evalExpr(exprLine, ValidOperatorsSet)
    /\ pc' = "evaluated"
    /\ UNCHANGED <<ValidOperatorsSet, exprLine, opArgs, length, operators, expressions,
                   colors, lhsCandidates, finalCandidates, lhsLength, rhsLength,
                   feasible, constraintsMap, eqPositions>>
    /\ UNCHANGED otherVars

\* integer operands handed to applyOp
MaxOperand == 12

\* operands on either side of the exponent guard's limit
LargeOperands == {0 - 1000001, 0 - 1000000, 1000000, 1000001}

InitApplyOp ==
    /\ pc = "applyOp"
    /\ ValidOperatorsSet = AllOperators
    /\ opArgs \in (((0 - MaxOperand)..MaxOperand) \cup LargeOperands)
                  \X ((0 - MaxOperand)..MaxOperand) \X AllOperators
    /\ exprLine = <<>> /\ evalResult = NoResult
    /\ length = 0 /\ operators = {} /\ expressions = <<>> /\ colors = <<>>
    /\ lhsCandidates = <<>> /\ finalCandidates = <<>>
    /\ lhsLength = 0 /\ rhsLength = 0 /\ feasible = FALSE
    /\ constraintsMap = NoConstraints /\ eqPositions = <<>>
    /\ Elsewhere

ApplyOp ==
    /\ pc = "applyOp"
    /\ evalResult' = applyOp(opArgs[1], opArgs[2], opArgs[3])
    /\ pc' = "applied"
    /\ UNCHANGED <<ValidOperatorsSet, exprLine, opArgs, length, operators, expressions,
                   colors, lhsCandidates, finalCandidates, lhsLength, rhsLength,
                   feasible, constraintsMap, eqPositions>>
    /\ UNCHANGED otherVars

\* lengths handed to the feasibility estimate
MaxLhsLen == 4

MaxRhsLen == 5

InitFeasible ==
    /\ pc = "isRhsLengthFeasible"
    /\ operators \in SUBSET AllOperators
    /\ lhsLength \in 1..MaxLhsLen
    /\ rhsLength \in 1..MaxRhsLen
    /\ ValidOperatorsSet = operators
    /\ exprLine = <<>> /\ opArgs = <<0, 0, "+">> /\ evalResult = NoResult
    /\ length = 0 /\ expressions = <<>> /\ colors = <<>>
    /\ lhsCandidates = <<>> /\ finalCandidates = <<>>
    /\ feasible = FALSE
    /\ constraintsMap = NoConstraints /\ eqPositions = <<>>
    /\ Elsewhere

IsRhsLengthFeasible ==
    /\ pc = "isRhsLengthFeasible"
    /\ feasible' = isRhsLengthFeasible(lhsLength, rhsLength, operators)
    /\ pc' = "estimated"
    /\ UNCHANGED <<ValidOperatorsSet, exprLine, opArgs, evalResult, length, operators,
                   expressions, colors, lhsCandidates, finalCandidates, lhsLength,
                   rhsLength, constraintsMap, eqPositions>>
    /\ UNCHANGED otherVars

\* the calls of the evaluator and of the feasibility estimate
Init == InitEvalExpr \/ InitApplyOp \/ InitFeasible

Next == EvalExpr \/ ApplyOp \/ IsRhsLengthFeasible

Spec == Init /\ [][Next]_vars

\* histories handed to deriveConstraints: up to MaxHistory guesses of one
\* length, each with any colour string, consistent with a secret or not, in
\* which the cells of the symbols that are not tracked are red
MaxHistory == 2

DerivePool ==
    {<<"5", "+", "5", "=", "1", "0">>, <<"1", "2", "-", "3", "=", "9">>,
     <<"1", "0", "/", "5", "=", "2">>}

TrackedSymbols == {"5", "-", "="}

ColourStrings(guess) ==
    {c \in [1..Len(guess) -> {"g", "y", "r"}] :
        \A p \in 1..Len(guess) : guess[p] \notin TrackedSymbols => c[p] = "r"}

DeriveHistories(len, n) ==
    LET coloured == UNION {{[expression |-> g, color |-> c] : c \in ColourStrings(g)} :
                             g \in {e \in DerivePool : Len(e) = len}}
    IN  {[expressions |-> [i \in 1..n |-> h[i].expression],
          colors |-> [i \in 1..n |-> h[i].color]] : h \in [1..n -> coloured]}

InitDerive ==
    /\ pc = "deriveConstraints"
    /\ length \in {Len(g) : g \in DerivePool}
    /\ \E n \in 0..MaxHistory :
         \E h \in DeriveHistories(length, n) :
            /\ expressions = h.expressions
            /\ colors = h.colors
    /\ operators = AllOperators /\ ValidOperatorsSet = AllOperators
    /\ exprLine = <<>> /\ opArgs = <<0, 0, "+">> /\ evalResult = NoResult
    /\ lhsCandidates = <<>> /\ finalCandidates = <<>>
    /\ lhsLength = 0 /\ rhsLength = 0 /\ feasible = FALSE
    /\ constraintsMap = NoConstraints /\ eqPositions = <<>>
    /\ Elsewhere

DeriveConstraints ==
    /\ pc = "deriveConstraints"
    /\ constraintsMap' = deriveConstraints(expressions, colors, length)
    /\ pc' = "derived"
    /\ UNCHANGED <<ValidOperatorsSet, exprLine, opArgs, evalResult, length, operators,
                   expressions, colors, lhsCandidates, finalCandidates, lhsLength,
                   rhsLength, feasible, eqPositions>>
    /\ UNCHANGED otherVars

\* the calls of deriveConstraints
SpecDerive == InitDerive /\ [][DeriveConstraints]_vars

\* the same calls and the calls of generate
InitWithGenerate == Init \/ InitGenerate

NextWithGenerate == Next \/ Generate

SpecGenerate == InitWithGenerate /\ [][NextWithGenerate]_vars

(***************************************************************************)
(* The value of a flat expression by its grammar:                          *)
(*   expr   ::= expr addop term | term        addop: + -                   *)
(*   term   ::= term mulop factor | factor    mulop: * /                   *)
(*   factor ::= number ^ factor | number                                   *)
(* The arithmetic of one step is applyOp's.                                *)
(***************************************************************************)
LastIndexOf(s, chars) ==
    LET hits == {i \in 1..Len(s) : s[i] \in chars}
    IN  IF hits = {} THEN 0 ELSE CHOOSE i \in hits : \A j \in hits : j <= i

FirstIndexOf(s, chars) ==
    LET hits == {i \in 1..Len(s) : s[i] \in chars}
    IN  IF hits = {} THEN 0 ELSE CHOOSE i \in hits : \A j \in hits : i <= j

Combine(l, r, op) ==
    IF ~l.ok THEN l ELSE IF ~r.ok THEN r ELSE applyOp(l.val, r.val, op)

RECURSIVE RefFactor(_)
RefFactor(s) ==
    LET k == FirstIndexOf(s, {"^"})
    IN  IF k = 0 THEN Value(stoll(s))
        ELSE Combine(Value(stoll(SubSeq(s, 1, k - 1))),
                     RefFactor(SubSeq(s, k + 1, Len(s))), "^")

RECURSIVE RefTerm(_)
RefTerm(s) ==
    LET k == LastIndexOf(s, {"*", "/"})
    IN  IF k = 0 THEN RefFactor(s)
        ELSE Combine(RefTerm(SubSeq(s, 1, k - 1)),
                     RefFactor(SubSeq(s, k + 1, Len(s))), s[k])

RECURSIVE RefExpr(_)
RefExpr(s) ==
    LET k == LastIndexOf(s, {"+", "-"})
    IN  IF k = 0 THEN RefTerm(s)
        ELSE Combine(RefExpr(SubSeq(s, 1, k - 1)),
                     RefTerm(SubSeq(s, k + 1, Len(s))), s[k])

\* the two sides of an equation
EqIndex(c) == FirstIndexOf(c, {"="})

LhsOf(c) == SubSeq(c, 1, EqIndex(c) - 1)

RhsOf(c) == SubSeq(c, EqIndex(c) + 1, Len(c))

\* a candidate reproduces the feedback of every recorded guess
ReproducesHistory(c, guesses, feedbacks) ==
    \A i \in 1..Len(guesses) : Feedback(c, guesses[i]) = feedbacks[i]

\* the numbers of a left side: its maximal runs of digits
NumberStarts(lhs) ==
    {i \in 1..Len(lhs) : isdigit(lhs[i]) /\ (i = 1 \/ ~isdigit(lhs[i - 1]))}

HasZeroLedNumber(lhs) == \E i \in NumberStarts(lhs) : lhs[i] = "0"

\* the digit counts of the values the left sides of a length can take
AchievableDigits(lhsLen, ops) ==
    {Len(to_string(evalExpr(lhs, ops).val)) :
        lhs \in {l \in WellFormedLhs(lhsLen, ops) :
                    LET r == evalExpr(l, ops) IN r.ok /\ r.val >= 0}}

(***************************************************************************)
(* Properties                                                              *)
(***************************************************************************)

\* C1: generate returns every well-formed equation of the length (numbers
\* without leading 0, no bare 0 operand, at least one operator, right side the
\* decimal string of the non-negative value) that reproduces the feedback of
\* every recorded guess.
C1_Completeness ==
    pc = "generated" =>
        \A e \in ValidEquations(length, operators) :
            ReproducesHistory(e, expressions, colors)
                => e \in Range(finalCandidates)

\* C2: every returned candidate, taken as the secret, reproduces the feedback
\* string of every recorded guess under the green/yellow/red rule.
C2_FeedbackRoundTrip ==
    pc = "generated" =>
        \A k \in 1..Len(finalCandidates) :
            ReproducesHistory(finalCandidates[k], expressions, colors)

\* C3: every returned candidate satisfies isCandidateValid against the map
\* deriveConstraints builds from the same history.
C3_ValidityClosure ==
    pc = "generated" =>
        \A k \in 1..Len(finalCandidates) :
            isCandidateValid(finalCandidates[k],
                             deriveConstraints(expressions, colors, length))

WellFormedResult(c, len, ops) ==
    /\ Len(c) = len
    /\ Cardinality({i \in 1..Len(c) : c[i] = "="}) = 1
    /\ LET lhs == LhsOf(c)
           r == evalExpr(lhs, ops)
       IN  /\ Len(lhs) >= 3
           /\ \A i \in 1..Len(lhs) : lhs[i] \in DigitSet \cup ops
           /\ isdigit(lhs[1]) /\ isdigit(lhs[Len(lhs)])
           /\ \E i \in 1..Len(lhs) : lhs[i] \in ops
           /\ \A i \in 1..(Len(lhs) - 1) : isdigit(lhs[i]) \/ isdigit(lhs[i + 1])
           /\ r.ok /\ r.val >= 0
           /\ RhsOf(c) = to_string(r.val)

\* C4: every returned string has exactly `length` characters and one '='; its
\* left side is number (operator number)+ with no leading, trailing or adjacent
\* operators; its right side is the decimal string of the non-negative value
\* evalExpr returns for the left side.
C4_WellFormedResults ==
    pc = "generated" =>
        \A k \in 1..Len(finalCandidates) :
            WellFormedResult(finalCandidates[k], length, operators)

C4_Witness ==
    /\ pc = "generated"
    /\ length = 6
    /\ expressions # <<>>
    /\ Len(finalCandidates) > 1
    /\ \E k \in 1..Len(finalCandidates) : Len(RhsOf(finalCandidates[k])) = 2

\* C5: no left side the search produces and no returned candidate holds a
\* number of several digits that begins with '0', nor the bare number 0.
C5_NoLeadingZero ==
    pc = "generated" =>
        /\ \A k \in 1..Len(lhsCandidates) : ~HasZeroLedNumber(lhsCandidates[k])
        /\ \A k \in 1..Len(finalCandidates) :
              ~HasZeroLedNumber(LhsOf(finalCandidates[k]))

ScenarioA ==
    /\ length = 5
    /\ operators = {"+"}
    /\ expressions = <<<<"1", "+", "2", "=", "3">>>>
    /\ colors = <<<<"g", "g", "g", "g", "g">>>>

\* C6: with length 5, operators {+} and the guess "1+2=3" answered "ggggg",
\* generate returns exactly the one candidate "1+2=3".
C6_ScenarioA ==
    (pc = "generated" /\ ScenarioA) => finalCandidates = <<<<"1", "+", "2", "=", "3">>>>

C6_Witness == pc = "generated" /\ ScenarioA /\ Len(finalCandidates) = 1

\* C7: isRhsLengthFeasible is never false when some well-formed left side of
\* lhsLen characters over the operators has a non-negative value of exactly
\* rhsLen decimal digits.
C7_GateSound ==
    (pc = "estimated" /\ rhsLength \in AchievableDigits(lhsLength, operators))
        => feasible

\* C8: with operators {+} and a left side of 3 characters the estimate is true
\* for a right side of 2 characters and false for a right side of 3.
C8_FeasibilityExample ==
    (pc = "estimated" /\ operators = {"+"} /\ lhsLength = 3) =>
        /\ rhsLength = 2 => feasible
        /\ rhsLength = 3 => ~feasible

\* C9: evalExpr returns for every well-formed flat expression the value of its
\* grammar: ^ binds tighter than * and /, these tighter than + and -; ^ groups
\* right-to-left, the other operators left-to-right.
C9_PrecedenceAssociativity ==
    pc = "evaluated" => evalResult = RefExpr(exprLine)

C9_Witness ==
    /\ pc = "evaluated"
    /\ exprLine = <<"2", "^", "3", "^", "2">>
    /\ evalResult = Value(512)

DivisionError == "Non-integer division not allowed"

\* C10: a division step with integer operands yields the exact quotient when
\* the divisor is non-zero and divides the dividend, and raises an error
\* otherwise; "8/2" evaluates to 4 and "7/2" to an error; no returned candidate
\* has a left side that raises the error.
C10_IntegerDivision ==
    /\ (pc = "applied" /\ opArgs[3] = "/") =>
          IF opArgs[2] # 0 /\ opArgs[1] % Abs(opArgs[2]) = 0
          THEN evalResult.ok /\ evalResult.val * opArgs[2] = opArgs[1]
          ELSE ~evalResult.ok
    /\ (pc = "evaluated" /\ exprLine = <<"8", "/", "2">>) => evalResult = Value(4)
    /\ (pc = "evaluated" /\ exprLine = <<"7", "/", "2">>) => ~evalResult.ok
    /\ pc = "generated" =>
          \A k \in 1..Len(lhsCandidates) :
              evalExpr(lhsCandidates[k], ValidOperatorsSet).err = DivisionError
                  => \A j \in 1..Len(finalCandidates) :
                        LhsOf(finalCandidates[j]) # lhsCandidates[k]

C10_Witness ==
    /\ pc = "generated"
    /\ finalCandidates # <<>>
    /\ \E k \in 1..Len(lhsCandidates) :
          evalExpr(lhsCandidates[k], ValidOperatorsSet).err = DivisionError

\* a power too large for the model's arithmetic
Beyond == ValueCap + 1

\* a multiplied by itself b times (1 when b = 0)
RECURSIVE RepeatedProduct(_, _)
RepeatedProduct(a, b) ==
    IF b = 0 THEN 1
    ELSE LET p == RepeatedProduct(a, b - 1)
         IN  IF p = Beyond \/ (a # 0 /\ Abs(p) > ValueCap \div Abs(a))
             THEN Beyond ELSE p * a

ExponentRefused(a, b) == b < 0 \/ Abs(a) > 1000000 \/ b > 10

PowerAgrees(result, a, b) ==
    IF ExponentRefused(a, b) THEN ~result.ok
    ELSE /\ result.ok
         /\ RepeatedProduct(a, b) # Beyond => result.val = RepeatedProduct(a, b)

\* number ^ number ^ ... grouped right-to-left, each step under the guard
RECURSIVE GuardedPower(_)
GuardedPower(s) ==
    LET k == FirstIndexOf(s, {"^"})
    IN  IF k = 0 THEN [ok |-> TRUE, val |-> stoll(s)]
        ELSE LET a == stoll(SubSeq(s, 1, k - 1))
                 e == GuardedPower(SubSeq(s, k + 1, Len(s)))
             IN  IF ~e.ok \/ ExponentRefused(a, e.val) THEN [ok |-> FALSE, val |-> 0]
                 ELSE [ok |-> TRUE, val |-> RepeatedProduct(a, e.val)]

PowerChain(s) == \A i \in 1..Len(s) : isdigit(s[i]) \/ s[i] = "^"

\* C11: an exponentiation step a^b raises an error when b < 0, |a| > 10^6 or
\* b > 10, and otherwise yields a multiplied by itself b times (1 when b = 0);
\* evalExpr applies the step to every ^ of a chain, right-to-left.
C11_ExponentGuard ==
    /\ (pc = "applied" /\ opArgs[3] = "^") =>
          PowerAgrees(evalResult, opArgs[1], opArgs[2])
    /\ (pc = "evaluated" /\ PowerChain(exprLine)) =>
          LET ref == GuardedPower(exprLine)
          IN  /\ evalResult.ok = ref.ok
              /\ (ref.ok /\ ref.val # Beyond) => evalResult.val = ref.val

C11_Witness ==
    /\ pc = "evaluated"
    /\ exprLine = <<"1", "0", "0", "0", "0", "0", "1", "^", "2">>
    /\ ~evalResult.ok

\* the left sides of the search whose evaluation succeeds, in order
EvaluatedLhs ==
    SelectSeq(lhsCandidates, LAMBDA lhs : evalExpr(lhs, ValidOperatorsSet).ok)

NoValue == [ok |-> FALSE, val |-> 0, err |-> "nullopt"]

\* C12: when evalExpr fails on an expression safeEval returns no result, and
\* generate skips only a left side whose evaluation fails: the returned list is
\* the list the loop returns over the left sides that evaluate.
C12_LocalErrors ==
    /\ (pc = "evaluated" /\ ~evalResult.ok) =>
          safeEval(exprLine, ValidOperatorsSet) = NoValue
    /\ pc = "generated" =>
          /\ \A k \in 1..Len(lhsCandidates) :
                ~evalExpr(lhsCandidates[k], ValidOperatorsSet).ok
                    => safeEval(lhsCandidates[k], ValidOperatorsSet) = NoValue
          /\ \E evaluated \in {EvaluatedLhs} :
                finalCandidates =
                    ConcatAll([k \in 1..Len(evaluated) |->
                        AcceptCandidate(evaluated[k], length - Len(evaluated[k]) - 1,
                                        expressions, colors, ValidOperatorsSet)])

C12_Witness ==
    /\ pc = "generated"
    /\ finalCandidates # <<>>
    /\ \E k \in 1..Len(lhsCandidates) :
          evalExpr(lhsCandidates[k], ValidOperatorsSet).err = "Division by zero"

\* cells of guess i that hold the symbol with one of the colours
Cells(i, symbol, cols) ==
    Cardinality({q \in 1..Len(expressions[i]) :
                    expressions[i][q] = symbol /\ colors[i][q] \in cols})

\* the guesses deriveConstraints processes: those of the equation's length
Processed ==
    {i \in 1..Len(expressions) :
        Len(expressions[i]) = length /\ Len(colors[i]) = length}

\* the largest green + yellow count of the symbol over the processed guesses
LowerBound(symbol) ==
    SetMax({0} \cup {Cells(i, symbol, {"g", "y"}) : i \in Processed})

SetMin(S) == CHOOSE x \in S : \A y \in S : x <= y

\* the equation length, or the smallest green + yellow count of the symbol
\* over the processed guesses that show it red
UpperBound(symbol) ==
    SetMin({length} \cup {Cells(i, symbol, {"g", "y"}) :
                             i \in {k \in Processed : Cells(k, symbol, {"r"}) > 0}})

\* C13: after deriveConstraints every symbol (other than '=', whose counts are
\* forced) that is not flagged as conflicting has minCount equal to the largest
\* green + yellow count over the processed guesses, and maxCount equal to the
\* minimum of the equation length and the green + yellow counts of the guesses
\* that show the symbol red.
C13_CountBounds ==
    pc = "derived" =>
        \A symbol \in Symbols \ {"="} :
            ~constraintsMap[symbol].hasConflict =>
                /\ constraintsMap[symbol].minCount = LowerBound(symbol)
                /\ constraintsMap[symbol].maxCount = UpperBound(symbol)

\* the map processSingleGuess is handed for the last guess of the history
PriorMap ==
    ProcessGuesses(SubSeq(expressions, 1, Len(expressions) - 1),
                   SubSeq(colors, 1, Len(colors) - 1), 1, length,
                   NoConstraints, {}).map

\* the candidate bounds the last guess gives for a symbol
CandidateLower(symbol) == Cells(Len(expressions), symbol, {"g", "y"})

CandidateUpper(symbol) ==
    IF Cells(Len(expressions), symbol, {"r"}) > 0 THEN CandidateLower(symbol)
    ELSE length

\* the symbol was exactly bounded and the last guess changes the bound
ExactBoundBroken(prior, symbol) ==
    /\ prior[symbol].minCount = prior[symbol].maxCount
    /\ \/ CandidateLower(symbol) > prior[symbol].minCount
       \/ CandidateUpper(symbol) < prior[symbol].maxCount

\* C14: when the last guess is processed for a symbol whose bounds were exact
\* and its candidate bounds raise the minimum or lower the maximum, the symbol
\* gets hasConflict and the widened bounds min(old minCount, candidate lower
\* bound) and max(old maxCount, candidate upper bound).  ('=' is left out: its
\* counts are overwritten after the loop.)
C14_ConflictWidening ==
    (pc = "derived" /\ expressions # <<>>) =>
        \E prior \in {PriorMap} :
            \A symbol \in Symbols \ {"="} :
                ExactBoundBroken(prior, symbol) =>
                    /\ constraintsMap[symbol].hasConflict
                    /\ constraintsMap[symbol].minCount =
                          MinOf(prior[symbol].minCount, CandidateLower(symbol))
                    /\ constraintsMap[symbol].maxCount =
                          MaxOf(prior[symbol].maxCount, CandidateUpper(symbol))

C14_Witness ==
    /\ pc = "derived"
    /\ Len(expressions) = 2
    /\ ExactBoundBroken(PriorMap, "5")
    /\ ~PriorMap["5"].hasConflict
    /\ constraintsMap["5"].hasConflict
    /\ constraintsMap["5"].minCount < constraintsMap["5"].maxCount

\* C15: after deriveConstraints on a history of correctly sized guesses,
\* contradictory or not, every symbol's minCount is at most its maxCount.
C15_NonEmptyModel ==
    pc = "derived" =>
        \A symbol \in Symbols :
            constraintsMap[symbol].minCount <= constraintsMap[symbol].maxCount

\* C16: after deriveConstraints no symbol has a position in both its
\* greenPositions and its bannedPositions.
C16_GreenNotBanned ==
    pc = "derived" =>
        \A symbol \in Symbols :
            constraintsMap[symbol].greenPos \cap constraintsMap[symbol].bannedPos = {}

\* positions at which some guess of the history shows '=' green
EqGreens ==
    {q - 1 : q \in {p \in 1..length :
                      \E i \in 1..Len(expressions) :
                          expressions[i][p] = "=" /\ colors[i][p] = "g"}}

\* C17: when the guesses mark '=' green at two or more distinct positions,
\* after deriveConstraints the '=' constraint has hasConflict and an empty
\* greenPositions set.
C17_ScenarioB ==
    (pc = "derived" /\ Cardinality(EqGreens) >= 2) =>
        /\ constraintsMap["="].hasConflict
        /\ constraintsMap["="].greenPos = {}

C17_Witness ==
    /\ pc = "derived"
    /\ EqGreens = {3, 4}
    /\ constraintsMap["="].hasConflict
    /\ constraintsMap["="].greenPos = {}

\* C18: for every history, whatever colours '=' received, the map
\* deriveConstraints returns has '=' with minCount 1 and maxCount 1.
C18_EqualsOnce ==
    pc = "derived" =>
        /\ constraintsMap["="].minCount = 1
        /\ constraintsMap["="].maxCount = 1

C18_Witness ==
    /\ pc = "derived"
    /\ Len(expressions) = 2
    /\ Cells(1, "=", {"r"}) = 1
    /\ Cells(2, "=", {"g"}) = 1
    /\ constraintsMap["="].minCount = 1
    /\ constraintsMap["="].maxCount = 1

\* guess i shows an operator symbol green at the 0-based position
GreenOperatorAt(i, position) ==
    /\ position + 1 \in 1..Len(expressions[i])
    /\ expressions[i][position + 1] \in OperatorSymbols
    /\ colors[i][position + 1] = "g"

\* positions i such that two different guesses show green operators at i-1, i
AdjacentOperatorGreens ==
    {position \in 1..(length - 1) :
        \E i, j \in 1..Len(expressions) :
            i # j /\ GreenOperatorAt(i, position - 1) /\ GreenOperatorAt(j, position)}

\* C19: after deriveConstraints the structural conflict flag is set on every
\* operator's constraint, with the two positions recorded, exactly when two
\* different guesses show operator symbols green at adjacent positions i-1, i;
\* without such a pair no flag is set and no position is recorded.
C19_AdjacentGreenOperators ==
    pc = "derived" =>
        \A op \in OperatorSymbols :
            /\ constraintsMap[op].structure.hasConflict
                  <=> AdjacentOperatorGreens # {}
            /\ Range(constraintsMap[op].structure.conflictPositions)
                  = UNION {{position - 1, position} :
                              position \in AdjacentOperatorGreens}

C19_Witness ==
    /\ pc = "derived"
    /\ AdjacentOperatorGreens = {3}
    /\ constraintsMap["+"].structure.hasConflict
    /\ constraintsMap["+"].structure.conflictPositions = <<2, 3>>

\* C20: when the guesses show '=' green at more than one position, generate
\* does not fix the '=' position: it visits every '=' index from length-2
\* down to 3.
C20_EqualsFallback ==
    (pc = "generated" /\ Cardinality(EqGreens) > 1) =>
        eqPositions = [k \in 1..(length - 4) |-> length - 1 - k]

(***************************************************************************)
(* C23: the rules of isCandidateValid, stated on the counts and positions  *)
(* of a candidate and tried on the maps deriveConstraints returns.         *)
(***************************************************************************)
\* strings handed to isCandidateValid: equations, the last one not a true one
CandidatePool ==
    DerivePool \cup {<<"1", "0", "-", "5", "=", "5">>, <<"5", "*", "5", "=", "2", "5">>,
                     <<"5", "*", "9", "=", "4", "5">>, <<"5", "6", "/", "7", "=", "8">>,
                     <<"7", "*", "8", "=", "5", "6">>, <<"7", "*", "8", "=", "5", "5">>}

\* the candidate has too few or too many occurrences of a mapped symbol
CountBroken(c, map) ==
    \E symbol \in DOMAIN map :
        \/ CountChar(c, symbol) < map[symbol].minCount
        \/ CountChar(c, symbol) > map[symbol].maxCount

\* the candidate holds a symbol at one of the symbol's own banned positions
BannedBroken(c, map) ==
    \E p \in 1..Len(c) : c[p] \in DOMAIN map /\ (p - 1) \in map[c[p]].bannedPos

\* the candidate holds a symbol where another symbol is green
GreenBroken(c, map) ==
    \E p \in 1..Len(c) :
        \E symbol \in DOMAIN map : symbol # c[p] /\ (p - 1) \in map[symbol].greenPos

\* every symbol of the candidate is in the map and not forbidden (0..0)
OverUsableSymbols(c, map) ==
    \A p \in 1..Len(c) :
        /\ c[p] \in DOMAIN map
        /\ ~(map[c[p]].minCount = 0 /\ map[c[p]].maxCount = 0)

\* C23: isCandidateValid(c, map) is false when some symbol's count in c is
\* below its minCount or above its maxCount, when c holds a symbol at one of
\* that symbol's bannedPositions, or when c holds at some position a symbol
\* other than one whose greenPositions contain the position; it is true for
\* every c over mapped, non-forbidden symbols that breaks none of these.
C23_CandidateRules ==
    pc = "derived" =>
        \A c \in CandidatePool :
            /\ (CountBroken(c, constraintsMap) \/ BannedBroken(c, constraintsMap)
                  \/ GreenBroken(c, constraintsMap))
                  => ~isCandidateValid(c, constraintsMap)
            /\ (OverUsableSymbols(c, constraintsMap)
                  /\ ~CountBroken(c, constraintsMap) /\ ~BannedBroken(c, constraintsMap)
                  /\ ~GreenBroken(c, constraintsMap))
                  => isCandidateValid(c, constraintsMap)

C23_Witness ==
    /\ pc = "derived"
    /\ Len(expressions) = 2
    /\ \E c \in CandidatePool :
          CountBroken(c, constraintsMap) /\ ~isCandidateValid(c, constraintsMap)
    /\ \E c \in CandidatePool :
          BannedBroken(c, constraintsMap) /\ ~isCandidateValid(c, constraintsMap)
    /\ \E c \in CandidatePool : isCandidateValid(c, constraintsMap)
    /\ \E c \in CandidatePool :
          /\ GreenBroken(c, constraintsMap)
          /\ ~CountBroken(c, constraintsMap) /\ ~BannedBroken(c, constraintsMap)
          /\ ~isCandidateValid(c, constraintsMap)

\* guess i gives the symbol a minimum that exceeds the exact maximum guess j
\* gives it by showing it with a red
IncompatibleCounts(symbol, i, j) ==
    /\ i # j
    /\ Cells(j, symbol, {"r"}) > 0
    /\ Cells(i, symbol, {"g", "y"}) > Cells(j, symbol, {"g", "y"})

\* C24: whenever two guesses of the history give a symbol incompatible count
\* information (the green + yellow count of one exceeds the exact maximum of
\* another that shows the symbol red), deriveConstraints sets hasConflict on
\* the symbol, whichever of the two guesses comes first.
C24_ConflictAnyOrder ==
    pc = "derived" =>
        \A symbol \in Symbols :
            (\E i, j \in Processed : IncompatibleCounts(symbol, i, j))
                => constraintsMap[symbol].hasConflict

(***************************************************************************)
(* deriveConstraints (Constraint.cpp 289-364) one guess at a time: the     *)
(* loop of lines 309-326 takes a pair per step, then the structural        *)
(* validation and the post-processing of '=' end the call.                 *)
(***************************************************************************)
\* histories of up to MaxSteps guesses in which only the cells of '5' are
\* coloured freely (the others are red)
MaxSteps == 3

StepColourStrings(guess) ==
    {c \in [1..Len(guess) -> {"g", "y", "r"}] :
        \A p \in 1..Len(guess) : guess[p] # "5" => c[p] = "r"}

StepHistories(len, n) ==
    LET coloured == UNION {{[expression |-> g, color |-> c] : c \in StepColourStrings(g)} :
                             g \in {e \in DerivePool : Len(e) = len}}
    IN  {[expressions |-> [i \in 1..n |-> h[i].expression],
          colors |-> [i \in 1..n |-> h[i].color]] : h \in [1..n -> coloured]}

InitDeriveSteps ==
    /\ pc = "deriving"
    /\ length \in {Len(g) : g \in DerivePool}
    /\ \E n \in 0..MaxSteps :
         \E h \in StepHistories(length, n) :
            /\ expressions = h.expressions
            /\ colors = h.colors
    /\ operators = AllOperators /\ ValidOperatorsSet = AllOperators
    /\ exprLine = <<>> /\ opArgs = <<0, 0, "+">> /\ evalResult = NoResult
    /\ lhsCandidates = <<>> /\ finalCandidates = <<>>
    /\ lhsLength = 0 /\ rhsLength = 0 /\ feasible = FALSE
    /\ constraintsMap = NoConstraints /\ eqPositions = <<>>
    /\ guessIndex = 0 /\ greenSymbolFlags = {}
    /\ NoFeedback /\ NoLog /\ NoRound /\ NoSearch

\* one pass of the loop of lines 309-326
ProcessSingleGuess ==
    /\ pc = "deriving"
    /\ guessIndex < Len(expressions)
    /\ \E res \in {ProcessGuesses(<<expressions[guessIndex + 1]>>,
                                  <<colors[guessIndex + 1]>>, 1, length,
                                  constraintsMap, greenSymbolFlags)} :
          /\ constraintsMap' = res.map
          /\ greenSymbolFlags' = res.flags
    /\ guessIndex' = guessIndex + 1
    /\ UNCHANGED <<pc, ValidOperatorsSet, exprLine, opArgs, evalResult, length,
                   operators, expressions, colors, lhsCandidates, finalCandidates,
                   lhsLength, rhsLength, feasible, eqPositions>>
    /\ UNCHANGED <<feedbackVars, logVars, roundVars, searchVars>>

\* lines 328-363: the loop has ended
FinishDerive ==
    /\ pc = "deriving"
    /\ guessIndex = Len(expressions)
    /\ constraintsMap' = PostProcess(constraintsMap, greenSymbolFlags, length)
    /\ pc' = "derived"
    /\ UNCHANGED <<ValidOperatorsSet, exprLine, opArgs, evalResult, length,
                   operators, expressions, colors, lhsCandidates, finalCandidates,
                   lhsLength, rhsLength, feasible, eqPositions>>
    /\ UNCHANGED <<deriveStepVars, feedbackVars, logVars, roundVars, searchVars>>

NextDeriveSteps == ProcessSingleGuess \/ FinishDerive

SpecDeriveSteps == InitDeriveSteps /\ [][NextDeriveSteps]_vars

\* the step is a pass of the loop that takes the next guess
TakesGuess == pc = "deriving" /\ guessIndex' = guessIndex + 1

\* C29: once hasConflict is set on a symbol while a history is derived, no
\* later guess clears it, and at every later guess the symbol's minCount does
\* not increase and its maxCount does not decrease; a later guess that does
\* not contain the symbol leaves the bounds at 0 and the equation length.
C29_StickyConflict ==
    [][TakesGuess =>
         \A symbol \in Symbols :
            constraintsMap[symbol].hasConflict =>
               /\ constraintsMap'[symbol].hasConflict
               /\ constraintsMap'[symbol].minCount <= constraintsMap[symbol].minCount
               /\ constraintsMap'[symbol].maxCount >= constraintsMap[symbol].maxCount
               /\ (CountChar(expressions[guessIndex'], symbol) = 0 =>
                     (/\ constraintsMap'[symbol].minCount = 0
                      /\ constraintsMap'[symbol].maxCount = length))]_vars

\* the second guess set the flag on '5', and a third guess that shows '5'
\* green or yellow has been taken since
C29_Witness ==
    /\ pc = "deriving"
    /\ guessIndex = 3
    /\ \E prior \in {ProcessGuesses(SubSeq(expressions, 1, 2), SubSeq(colors, 1, 2),
                                    1, length, NoConstraints, {}).map} :
          /\ prior["5"].hasConflict
          /\ prior["5"].minCount = 0
          /\ Cells(3, "5", {"g", "y"}) > 0
    /\ constraintsMap["5"].hasConflict
    /\ constraintsMap["5"].minCount = 0

(***************************************************************************)
(* matchesFeedback(candidate, expression, color, allowedOps), the free     *)
(* function of Constraint.cpp 41-124.  candCount is the unordered_map; a   *)
(* missing key counts as 0.                                                *)
(***************************************************************************)
\* lines 64-75: the green cells
RECURSIVE ValidateGreens(_, _, _, _, _)
ValidateGreens(candidate, expression, color, i, candCount) ==
    IF i > Len(candidate) THEN [ok |-> TRUE, candCount |-> candCount]
    ELSE IF color[i] = "g"
         THEN IF candidate[i] # expression[i]
              THEN [ok |-> FALSE, candCount |-> candCount]
              ELSE ValidateGreens(candidate, expression, color, i + 1,
                                  [candCount EXCEPT ![expression[i]] = @ - 1])
         ELSE ValidateGreens(candidate, expression, color, i + 1, candCount)

\* line 112: a red cell fails while an unconsumed occurrence remains
RedStillPresent(candidate, i, ch, candCount) == candCount[ch] > 0

\* lines 78-121: the cells that are not green, in one pass
RECURSIVE ValidateOthers(_, _, _, _, _, _)
ValidateOthers(candidate, expression, color, allowedOps, i, candCount) ==
    IF i > Len(candidate) THEN TRUE
    ELSE LET ch == expression[i]
             next(cnt) == ValidateOthers(candidate, expression, color, allowedOps,
                                         i + 1, cnt)
         IN  IF color[i] = "g" THEN next(candCount)
             ELSE IF ch = "=" THEN (IF candidate[i] # "=" THEN FALSE ELSE next(candCount))
             ELSE IF ~isdigit(ch) /\ ch \notin allowedOps THEN FALSE
             ELSE IF color[i] = "y"
                  THEN IF candCount[ch] <= 0 THEN FALSE
                       ELSE IF candidate[i] = ch THEN FALSE
                       ELSE next([candCount EXCEPT ![ch] = @ - 1])
             ELSE IF color[i] = "r"
                  THEN IF RedStillPresent(candidate, i, ch, candCount) THEN FALSE
                       ELSE next(candCount)
             ELSE FALSE

Constraint_matchesFeedback(candidate, expression, color, allowedOps) ==
    IF Len(candidate) # Len(expression) \/ Len(expression) # Len(color) THEN FALSE
    ELSE LET candCount0 == [ch \in CharsOf(candidate) \cup CharsOf(expression) |->
                               CountChar(candidate, ch)]
             green == ValidateGreens(candidate, expression, color, 1, candCount0)
         IN  green.ok /\ ValidateOthers(candidate, expression, color, allowedOps, 1,
                                        green.candCount)

\* the strings of the calls: equations of five characters, one with a symbol
\* that is no operator, and one shorter string
FeedbackPool ==
    {<<"1", "+", "2", "=", "3">>, <<"1", "+", "3", "=", "4">>, <<"4", "-", "2", "=", "2">>,
     <<"3", "-", "1", "=", "2">>, <<"1", "-", "2", "=", "3">>, <<"1", "?", "2", "=", "3">>,
     <<"1", "+", "2", "3", "=">>, <<"1", "2", "+", "3">>}

\* colour strings: g, y, r and a character that is no colour
ColourChars == {"g", "y", "r", "x"}

AllowedOpsPool == {{"+", "-", "*", "/", "^"}, {"+"}}

InitMatchesFeedback ==
    /\ pc = "matchesFeedback"
    /\ exprLine \in FeedbackPool
    /\ \E expression \in FeedbackPool :
         /\ expressions = <<expression>>
         /\ \E color \in UNION {[1..n -> ColourChars] : n \in {4, 5}} : colors = <<color>>
    /\ operators \in AllowedOpsPool
    /\ ValidOperatorsSet = operators
    /\ length = Len(exprLine)
    /\ opArgs = <<0, 0, "+">> /\ evalResult = NoResult
    /\ lhsCandidates = <<>> /\ finalCandidates = <<>>
    /\ lhsLength = 0 /\ rhsLength = 0 /\ feasible = FALSE
    /\ constraintsMap = NoConstraints /\ eqPositions = <<>>
    /\ matched = FALSE
    /\ NoDeriveSteps /\ NoLog /\ NoRound /\ NoSearch

\* runTest: matchesFeedback(candidate, expression, color, allowedOps)
MatchesFeedback ==
    /\ pc = "matchesFeedback"
    /\ matched' = Constraint_matchesFeedback(exprLine, expressions[1], colors[1], operators)
    /\ pc' = "matched"
    /\ UNCHANGED <<ValidOperatorsSet, exprLine, opArgs, evalResult, length, operators,
                   expressions, colors, lhsCandidates, finalCandidates, lhsLength,
                   rhsLength, feasible, constraintsMap, eqPositions>>
    /\ UNCHANGED <<deriveStepVars, logVars, roundVars, searchVars>>

SpecFeedback == InitMatchesFeedback /\ [][MatchesFeedback]_vars

\* the colour string is the feedback the guess receives against the candidate
TrueFeedback(candidate, expression, color, allowedOps) ==
    /\ Len(candidate) = Len(expression) /\ Len(expression) = Len(color)
    /\ \A i \in 1..Len(color) : color[i] \in {"g", "y", "r"}
    /\ \A i \in 1..Len(expression) :
          isdigit(expression[i]) \/ expression[i] \in allowedOps \/ expression[i] = "="
    /\ color = Feedback(candidate, expression)

\* C25: matchesFeedback(candidate, guess, colours, allowedOps) returns true
\* exactly when the three strings have equal length, every colour is g, y or
\* r, every guess symbol is a digit, an allowed operator or '=', and colours
\* is the feedback the guess receives against the candidate as the secret.
C25_MatchesFeedback ==
    pc = "matched" =>
        (matched <=> TrueFeedback(exprLine, expressions[1], colors[1], operators))

(***************************************************************************)
(* LogFileManager: the static members silentMode and ofs_, and the log     *)
(* file, an append-only sequence of entries.  The time stamps the code     *)
(* writes are left out of the entries.  Two copies of the source file      *)
(* exist, core/LogFileManager.cpp and core/logging/LogFileManager.cpp;     *)
(* logSource says which one is compiled.                                   *)
(***************************************************************************)
\* the file is not written beyond this many entries
MaxLogEntries == 3

LogSources == {"core/LogFileManager.cpp", "core/logging/LogFileManager.cpp"}

LogLines == {"a", "b"}

SessionStarted == [kind |-> "Log Session Started", text |-> ""]

SessionEnded == [kind |-> "Log Session Ended", text |-> ""]

\* core/LogFileManager.cpp 102: the time-stamped line
LineEntry(line) == [kind |-> "line", text |-> line]

InitLog ==
    /\ pc = "LogFileManager"
    /\ logSource \in LogSources
    /\ silentMode = FALSE /\ ofsOpen = FALSE
    /\ logFile = <<>> /\ logLine = ""
    /\ NoCall /\ NoDeriveSteps /\ NoFeedback /\ NoRound /\ NoSearch

SetSilentMode ==
    /\ \E enabled \in BOOLEAN : silentMode' = enabled
    /\ pc' = "SetSilentMode"
    /\ UNCHANGED <<logSource, ofsOpen, logFile, logLine>>
    /\ UNCHANGED <<callVars, deriveStepVars, feedbackVars, roundVars, searchVars>>

\* the same text in both copies; ofs_.open may fail
Initialize ==
    /\ Len(logFile) < MaxLogEntries
    /\ IF ofsOpen THEN UNCHANGED <<ofsOpen, logFile>>
       ELSE \E opened \in BOOLEAN :
               /\ ofsOpen' = opened
               /\ logFile' = IF opened THEN Append(logFile, SessionStarted) ELSE logFile
    /\ pc' = "Initialize"
    /\ UNCHANGED <<logSource, silentMode, logLine>>
    /\ UNCHANGED <<callVars, deriveStepVars, feedbackVars, roundVars, searchVars>>

\* the same text in both copies
Shutdown ==
    /\ Len(logFile) < MaxLogEntries
    /\ IF ~ofsOpen THEN UNCHANGED <<ofsOpen, logFile>>
       ELSE /\ logFile' = Append(logFile, SessionEnded)
            /\ ofsOpen' = FALSE
    /\ pc' = "Shutdown"
    /\ UNCHANGED <<logSource, silentMode, logLine>>
    /\ UNCHANGED <<callVars, deriveStepVars, feedbackVars, roundVars, searchVars>>

\* core/LogFileManager.cpp 87-104 writes the line and flushes;
\* core/logging/LogFileManager.cpp 161-175 only flushes
Write ==
    /\ Len(logFile) < MaxLogEntries
    /\ \E line \in LogLines :
          /\ logLine' = line
          /\ logFile' = IF silentMode THEN logFile
                        ELSE IF ~ofsOpen THEN logFile
                        ELSE IF logSource = "core/LogFileManager.cpp"
                             THEN Append(logFile, LineEntry(line))
                             ELSE logFile
    /\ pc' = "Write"
    /\ UNCHANGED <<logSource, silentMode, ofsOpen>>
    /\ UNCHANGED <<callVars, deriveStepVars, feedbackVars, roundVars, searchVars>>

NextLog == SetSilentMode \/ Initialize \/ Shutdown \/ Write

SpecLog == InitLog /\ [][NextLog]_vars

\* C30: LogFileManager::Write appends the given line to the open log file
\* whenever silent mode is off and the file has been initialized; in silent
\* mode, or when the file is not open, the content of the file is unchanged.
C30_WriteAppends ==
    [][pc' = "Write" =>
         logFile' = IF ~silentMode /\ ofsOpen
                    THEN Append(logFile, LineEntry(logLine')) ELSE logFile]_vars

(***************************************************************************)
(* RoundManager: initializeRound, processRoundInput and rollback.  The     *)
(* session enters guesses of the round's length with a colour string; the  *)
(* "undo" command calls rollback.  initializeConstraintsMap and the        *)
(* three-argument updateConstraint are declared in Constraint.h only.      *)
(***************************************************************************)
MaxRounds == 2

\* the expression specs a session enters (readExpressionSpec)
RoundSpecs ==
    {[exprLength |-> 5, operatorsSet |-> {"+", "-"}],
     [exprLength |-> 6, operatorsSet |-> {"+", "-"}]}

\* the guesses a player enters in a round
RoundGuesses ==
    {<<"1", "+", "2", "=", "3">>, <<"2", "+", "1", "=", "3">>,
     <<"4", "-", "2", "=", "2">>,
     <<"1", "0", "-", "5", "=", "5">>, <<"5", "+", "5", "=", "1", "0">>}

\* the equations whose feedback the player copies into the colour line
RoundSecrets ==
    {<<"1", "+", "2", "=", "3">>, <<"3", "-", "1", "=", "2">>,
     <<"2", "+", "2", "=", "4">>, <<"2", "-", "1", "=", "1">>,
     <<"1", "0", "-", "5", "=", "5">>, <<"5", "+", "5", "=", "1", "0">>}

\* RoundRecord.h
RoundRecord(line, colorLine) == [exprLine |-> line, exprColorLine |-> colorLine]

\* what readPlayerInput can return in a round of a length
RoundInputs(exprLength) ==
    {RoundRecord(guess, Feedback(secret, guess)) :
        guess \in {g \in RoundGuesses : Len(g) = exprLength},
        secret \in {s \in RoundSecrets : Len(s) = exprLength}}

\* a default-initialised entry for every symbol that may appear
initializeConstraintsMap == [symbol \in Symbols |-> BaseConstraint]

\* the per-guess logic, applied to the map the caller holds
updateConstraint(map, line, colorLine) ==
    processSingleGuess(line, colorLine, map, Len(line))

\* ExpressionValidator::filterExpressions
filterExpressions(candidates, map) ==
    SelectSeq(candidates, LAMBDA expr : isCandidateValid(expr, map))

\* variant that searches again for every guess
EveryRoundFirst(history) == TRUE

\* line 194: roundHistory.size() == 1
firstRoundInput(history) == Len(history) = 1

\* lines 243-248: the map rebuilt from the remaining rounds
RECURSIVE ReplayHistory(_, _, _)
ReplayHistory(history, i, map) ==
    IF i > Len(history) THEN map
    ELSE ReplayHistory(history, i + 1,
             updateConstraint(map, history[i].exprLine, history[i].exprColorLine))

\* initializeRound: the map and the lists are cleared
InitRound ==
    /\ pc = "RoundManager"
    /\ \E spec \in RoundSpecs :
          /\ length = spec.exprLength
          /\ operators = spec.operatorsSet
    /\ ValidOperatorsSet = operators
    /\ constraintsMap = <<>>
    /\ exprLine = <<>> /\ opArgs = <<0, 0, "+">> /\ evalResult = NoResult
    /\ expressions = <<>> /\ colors = <<>>
    /\ lhsCandidates = <<>> /\ finalCandidates = <<>>
    /\ lhsLength = 0 /\ rhsLength = 0 /\ feasible = FALSE /\ eqPositions = <<>>
    /\ NoRound
    /\ NoDeriveSteps /\ NoFeedback /\ NoLog /\ NoSearch

roundRest == <<ValidOperatorsSet, exprLine, opArgs, evalResult, length, operators,
               expressions, colors, lhsCandidates, finalCandidates, lhsLength,
               rhsLength, feasible, eqPositions, deriveStepVars, feedbackVars,
               logVars, searchVars>>

ProcessRoundInput ==
    /\ pc \in {"RoundManager", "processRoundInput", "rollback"}
    /\ Len(roundHistory) < MaxRounds
    /\ \E currentRound \in RoundInputs(length) :
          \E updated \in {updateConstraint(constraintsMap, currentRound.exprLine,
                                           currentRound.exprColorLine)} :
             /\ roundHistory' = Append(roundHistory, currentRound)
             /\ constraintsMap' = updated
             /\ IF firstRoundInput(roundHistory')
                THEN \E res \in {generate(length, operators,
                                          <<currentRound.exprLine>>,
                                          <<currentRound.exprColorLine>>,
                                          ValidOperatorsSet).finalCandidates} :
                        /\ initialCandidatesList' = res
                        /\ currentCandidatesList' = res
                ELSE /\ currentCandidatesList' =
                            filterExpressions(currentCandidatesList, updated)
                     /\ UNCHANGED initialCandidatesList
    /\ undoPoint' = <<roundHistory, constraintsMap, currentCandidatesList>>
    /\ pc' = "processRoundInput"
    /\ UNCHANGED roundRest

Rollback ==
    /\ pc \in {"processRoundInput", "rollback"}
    /\ roundHistory # <<>>
    /\ \E remaining \in {SubSeq(roundHistory, 1, Len(roundHistory) - 1)} :
          \E rebuilt \in {ReplayHistory(remaining, 1, initializeConstraintsMap)} :
             /\ roundHistory' = remaining
             /\ constraintsMap' = rebuilt
             /\ currentCandidatesList' =
                   IF remaining = <<>> THEN initialCandidatesList
                   ELSE filterExpressions(initialCandidatesList, rebuilt)
    /\ undoPoint' = <<>>
    /\ pc' = "rollback"
    /\ UNCHANGED initialCandidatesList
    /\ UNCHANGED roundRest

NextRound == ProcessRoundInput \/ Rollback

SpecRound == InitRound /\ [][NextRound]_vars

\* the guesses and the colour lines of a history
HistoryLines(history) == [i \in 1..Len(history) |-> history[i].exprLine]

HistoryColors(history) == [i \in 1..Len(history) |-> history[i].exprColorLine]

\* C21: for every recorded history, applying updateConstraint once per guess
\* to the initial map, as rollback does, yields the map deriveConstraints
\* returns for the whole history: bounds, positions, conflict flags and the
\* post-processing of '=' included.
C21_IncrementalEqualsRebuild ==
    roundHistory # <<>>
        => ReplayHistory(roundHistory, 1, initializeConstraintsMap)
              = deriveConstraints(HistoryLines(roundHistory),
                                  HistoryColors(roundHistory), length)

\* a is b with some elements left out, the order kept
RECURSIVE IsSubList(_, _)
IsSubList(a, b) ==
    IF a = <<>> THEN TRUE
    ELSE IF b = <<>> THEN FALSE
    ELSE IF Head(a) = Head(b) THEN IsSubList(Tail(a), Tail(b))
    ELSE IsSubList(a, Tail(b))

\* C22: a guess that is not the first of the recorded history leaves the
\* stored result of the full search alone, and the new candidate list is the
\* previous list filtered by isCandidateValid under the updated constraints:
\* an order-preserving sub-list of the previous list that gains no candidate.
C22_CandidateLifecycle ==
    [][(pc' = "processRoundInput" /\ Len(roundHistory') > 1) =>
          /\ initialCandidatesList' = initialCandidatesList
          /\ currentCandidatesList' =
                SelectSeq(currentCandidatesList,
                          LAMBDA c : isCandidateValid(c, constraintsMap'))
          /\ IsSubList(currentCandidatesList', currentCandidatesList)
          /\ Range(currentCandidatesList') \subseteq Range(currentCandidatesList)]_vars

\* a second guess has shortened a list without emptying it
C22_Witness ==
    /\ pc = "processRoundInput"
    /\ Len(roundHistory) = 2
    /\ currentCandidatesList # <<>>
    /\ Len(currentCandidatesList) < Len(undoPoint[3])

SearchCalls ==
    {[length |-> 5, operators |-> {"+", "-"},
      expressions |-> <<<<"4", "-", "2", "=", "2">>>>,
      colors |-> <<<<"r", "g", "y", "g", "r">>>>, eqPos |-> 3],
     [length |-> 5, operators |-> {"-"},
      expressions |-> <<>>, colors |-> <<>>, eqPos |-> 3],
     [length |-> 7, operators |-> {"+"},
      expressions |-> <<<<"2", "+", "2", "+", "2", "=", "6">>>>,
      colors |-> <<<<"y", "g", "y", "g", "y", "g", "r">>>>, eqPos |-> 5],
     [length |-> 7, operators |-> {"+"},
      expressions |-> <<<<"2", "+", "2", "+", "3", "=", "7">>>>,
      colors |-> <<<<"y", "g", "y", "g", "r", "g", "r">>>>, eqPos |-> 5],
     [length |-> 9, operators |-> {"+"},
      expressions |-> <<<<"1", "+", "1", "+", "1", "+", "1", "=", "4">>>>,
      colors |-> <<<<"r", "g", "r", "g", "r", "g", "r", "g", "r">>>>, eqPos |-> 7]}

\* lines 261-267: remainingMin[ch] = con.minCount()
InitialRemainingMin(lhsConstraintsMap) ==
    [ch \in DOMAIN lhsConstraintsMap |-> lhsConstraintsMap[ch].minCount]

\* what the lambdas of generateLeftTokens capture
SearchCx ==
    LET allowedPerPos == AllowedPerPos(length, expressions, colors)
        useAllowed == \E p \in 1..length : allowedPerPos[p] # {}
    IN  [lhsLen |-> lhsLength, operators |-> operators,
         validOps |-> ValidOperatorsSet,
         allowed |-> [i \in 1..lhsLength |->
                         IF useAllowed THEN allowedPerPos[i] ELSE {}],
         useAllowed |-> useAllowed,
         map |-> constraintsMap,
         requiredAtPos |-> RequiredAtPos(lhsLength, constraintsMap)]

\* a call of genTokens; numLen is the loop variable, 0 before the body runs
GenTokensCall(pos, expectNumber, hasOperator, buffer, counters) ==
    [fn |-> "genTokens", pos |-> pos, expectNumber |-> expectNumber,
     hasOperator |-> hasOperator, numLen |-> 0,
     saved |-> <<buffer, counters>>]

\* a call of buildNumber; k is the position of its loop, 0 before the body
\* runs, and pending the character pushed for the call that is running
BuildNumberCall(pos, numLen, idx, hasOperator, buffer, counters) ==
    [fn |-> "buildNumber", pos |-> pos, numLen |-> numLen, idx |-> idx,
     hasOperator |-> hasOperator, k |-> 0, candidates |-> <<>>,
     pending |-> NoChar, saved |-> <<buffer, counters>>]

Top == stack[Len(stack)]

Popped == SubSeq(stack, 1, Len(stack) - 1)

ReplaceTop(frame) == [stack EXCEPT ![Len(stack)] = frame]

\* current.pop_back()
PopBack(buffer) == SubSeq(buffer, 1, Len(buffer) - 1)

\* remainingMin[ch]-- for a counted character
DecrementMin(counters, ch) ==
    IF ch \in DOMAIN counters THEN [counters EXCEPT ![ch] = @ - 1] ELSE counters

\* variant that does not give the count back
KeepDecremented(counters, ch) == counters

\* remainingMin[ch]++ for a counted character
IncrementMin(counters, ch) ==
    IF ch \in DOMAIN counters THEN [counters EXCEPT ![ch] = @ + 1] ELSE counters

\* lines 373-379: some counter exceeds the remaining length
PruneForMinCount(counters, remaining) ==
    \E ch \in DOMAIN counters : counters[ch] > remaining

\* generate has reached the call of generateLeftTokens for one '=' index
InitSearch ==
    /\ pc = "generateLeftTokens"
    /\ \E call \in SearchCalls :
          /\ length = call.length
          /\ operators = call.operators
          /\ expressions = call.expressions
          /\ colors = call.colors
          /\ lhsLength = call.eqPos
          /\ rhsLength = call.length - call.eqPos - 1
    /\ ValidOperatorsSet = operators
    /\ constraintsMap = AdjustMinCount(deriveConstraints(expressions, colors, length),
                                       rhsLength)
    /\ current = <<>>
    /\ remainingMin = InitialRemainingMin(constraintsMap)
    /\ stack = <<GenTokensCall(0, TRUE, FALSE, current, remainingMin)>>
    /\ searchStep = "start"
    /\ lhsCandidates = <<>> /\ finalCandidates = <<>> /\ eqPositions = <<>>
    /\ exprLine = <<>> /\ opArgs = <<0, 0, "+">> /\ evalResult = NoResult
    /\ feasible = FALSE
    /\ NoDeriveSteps /\ NoFeedback /\ NoLog /\ NoRound

searchRest == <<ValidOperatorsSet, exprLine, opArgs, evalResult, length, operators,
                expressions, colors, finalCandidates, lhsLength, rhsLength,
                feasible, constraintsMap, eqPositions, deriveStepVars,
                feedbackVars, logVars, roundVars>>

\* the search is over when the outermost genTokens has returned
Continue(newStack) ==
    pc' = IF newStack = <<>> THEN "searched" ELSE "generateLeftTokens"

Searching == pc = "generateLeftTokens" /\ stack # <<>>

\* lines 364-386: the head of genTokens
EnterGenTokens ==
    /\ Searching
    /\ Top.fn = "genTokens" /\ Top.numLen = 0
    /\ LET remaining == lhsLength - Top.pos
       IN  IF remaining <= 0
           THEN /\ lhsCandidates' = IF ~Top.expectNumber /\ Top.hasOperator
                                    THEN Append(lhsCandidates, current)
                                    ELSE lhsCandidates
                /\ stack' = Popped
                /\ searchStep' = "end"
           ELSE IF PruneForMinCount(remainingMin, remaining)
           THEN /\ stack' = Popped
                /\ searchStep' = "prune"
                /\ UNCHANGED lhsCandidates
           ELSE /\ stack' = ReplaceTop([Top EXCEPT !.numLen = 1])
                /\ searchStep' = "genTokens"
                /\ UNCHANGED lhsCandidates
    /\ Continue(stack')
    /\ UNCHANGED <<current, remainingMin>>
    /\ UNCHANGED searchRest

\* lines 389-394, 492: one turn of the loop over numLen
NextNumLen ==
    /\ Searching
    /\ Top.fn = "genTokens" /\ Top.numLen >= 1
    /\ LET remaining == lhsLength - Top.pos
       IN  IF Top.numLen > remaining
           THEN /\ stack' = Popped
                /\ searchStep' = "return"
           ELSE IF SkipNumLen(remaining - Top.numLen)
           THEN /\ stack' = ReplaceTop([Top EXCEPT !.numLen = @ + 1])
                /\ searchStep' = "skip"
           ELSE /\ stack' = Append(ReplaceTop([Top EXCEPT !.numLen = @ + 1]),
                                   BuildNumberCall(Top.pos, Top.numLen, 0,
                                                   Top.hasOperator, current,
                                                   remainingMin))
                /\ searchStep' = "call"
    /\ Continue(stack')
    /\ UNCHANGED <<current, remainingMin, lhsCandidates>>
    /\ UNCHANGED searchRest

\* lines 399-405, 438-468: the head of buildNumber
EnterBuildNumber ==
    /\ Searching
    /\ Top.fn = "buildNumber" /\ Top.k = 0
    /\ LET after == (lhsLength - Top.pos) - Top.numLen
       IN  IF Top.idx = Top.numLen
           THEN IF after = 0
                THEN /\ lhsCandidates' =
                           lhsCandidates \o PushComplete(Top.hasOperator, current)
                     /\ stack' = Popped
                     /\ searchStep' = "complete"
                ELSE /\ stack' = ReplaceTop([Top EXCEPT !.k = 1])
                     /\ searchStep' = "operators"
                     /\ UNCHANGED lhsCandidates
           ELSE \E candidates \in {DigitCandidates(SearchCx, current, Top.pos,
                                                   Top.numLen, Top.idx)} :
                   /\ IF Top.pos + Top.numLen = lhsLength /\ ~Top.hasOperator
                      THEN stack' = Popped /\ searchStep' = "noOperator"
                      ELSE IF candidates = <<>>
                      THEN stack' = Popped /\ searchStep' = "noCandidates"
                      ELSE /\ stack' = ReplaceTop([Top EXCEPT !.k = 1,
                                                   !.candidates = candidates])
                           /\ searchStep' = "digits"
                   /\ UNCHANGED lhsCandidates
    /\ Continue(stack')
    /\ UNCHANGED <<current, remainingMin>>
    /\ UNCHANGED searchRest

\* lines 406-436: one turn of the loop over the operators
TryOperator ==
    /\ Searching
    /\ Top.fn = "buildNumber" /\ Top.k >= 1
    /\ Top.idx = Top.numLen /\ Top.pending = NoChar
    /\ IF Top.k > Len(OpOrder)
       THEN /\ stack' = Popped
            /\ searchStep' = "return"
            /\ UNCHANGED current
       ELSE LET op == OpOrder[Top.k]
                opPos == Top.pos + Top.numLen
            IN  IF \/ op \notin operators
                   \/ ~isCharAllowedAt(SearchCx, current, op, opPos)
                   \/ ~checkOperatorValidity(SearchCx, current, op)
                THEN /\ stack' = ReplaceTop([Top EXCEPT !.k = @ + 1])
                     /\ searchStep' = "skipOperator"
                     /\ UNCHANGED current
                ELSE /\ current' = Append(current, op)
                     /\ stack' = Append(ReplaceTop([Top EXCEPT !.k = @ + 1,
                                                               !.pending = op]),
                                        GenTokensCall(opPos + 1, TRUE, TRUE,
                                                      current', remainingMin))
                     /\ searchStep' = "call"
    /\ Continue(stack')
    /\ UNCHANGED <<remainingMin, lhsCandidates>>
    /\ UNCHANGED searchRest

\* lines 427, 434: current.pop_back() after genTokens has returned
AfterOperator ==
    /\ Searching
    /\ Top.fn = "buildNumber" /\ Top.idx = Top.numLen /\ Top.pending # NoChar
    /\ current' = PopBack(current)
    /\ stack' = ReplaceTop([Top EXCEPT !.pending = NoChar])
    /\ searchStep' = "popOperator"
    /\ Continue(stack')
    /\ UNCHANGED <<remainingMin, lhsCandidates>>
    /\ UNCHANGED searchRest

\* lines 470-486: one turn of the loop over the digit candidates
TryDigit ==
    /\ Searching
    /\ Top.fn = "buildNumber" /\ Top.k >= 1
    /\ Top.idx < Top.numLen /\ Top.pending = NoChar
    /\ IF Top.k > Len(Top.candidates)
       THEN /\ stack' = Popped
            /\ searchStep' = "return"
            /\ UNCHANGED <<current, remainingMin>>
       ELSE LET ch == Top.candidates[Top.k]
                pushed == Append(current, ch)
                counted == DecrementMin(remainingMin, ch)
                valOpt == safeEval(pushed, ValidOperatorsSet)
            IN  IF valOpt.ok /\ valOpt.val < 0
                THEN /\ current' = PopBack(pushed)
                     /\ remainingMin' = IncrementMin(counted, ch)
                     /\ stack' = ReplaceTop([Top EXCEPT !.k = @ + 1])
                     /\ searchStep' = "rejected"
                ELSE /\ current' = pushed
                     /\ remainingMin' = counted
                     /\ stack' = Append(ReplaceTop([Top EXCEPT !.k = @ + 1,
                                                               !.pending = ch]),
                                        BuildNumberCall(Top.pos, Top.numLen,
                                                        Top.idx + 1, Top.hasOperator,
                                                        pushed, counted))
                     /\ searchStep' = "call"
    /\ Continue(stack')
    /\ UNCHANGED lhsCandidates
    /\ UNCHANGED searchRest

\* lines 487-489: the counter and the buffer after buildNumber has returned
AfterDigit ==
    /\ Searching
    /\ Top.fn = "buildNumber" /\ Top.idx < Top.numLen /\ Top.pending # NoChar
    /\ remainingMin' = IncrementMin(remainingMin, Top.pending)
    /\ current' = PopBack(current)
    /\ stack' = ReplaceTop([Top EXCEPT !.pending = NoChar])
    /\ searchStep' = "popDigit"
    /\ Continue(stack')
    /\ UNCHANGED lhsCandidates
    /\ UNCHANGED searchRest

NextSearch ==
    \/ EnterGenTokens \/ NextNumLen \/ EnterBuildNumber
    \/ TryOperator \/ AfterOperator \/ TryDigit \/ AfterDigit

SpecSearch == InitSearch /\ [][NextSearch]_vars

\* C26: whenever a call of genTokens or buildNumber returns, on whatever exit
\* path, and so when generateLeftTokens itself returns, the token buffer and
\* the remaining-minimum counters have the values they had when the call was
\* made.
C26_BacktrackingRestores ==
    [][Len(stack') < Len(stack) =>
          /\ <<current', remainingMin'>> = Top.saved
          /\ stack' = <<>> =>
                current' = <<>> /\ remainingMin' = InitialRemainingMin(constraintsMap)]_vars

\* the search has returned after pruned branches, rejected digits and
\* completed left sides, with a counter that was in use
C26_Witness ==
    /\ pc = "searched"
    /\ lhsCandidates # <<>>
    /\ current = <<>>
    /\ \E ch \in DOMAIN remainingMin : remainingMin[ch] > 0

\* the minimum counts the buffer has not met yet, summed over the symbols
RECURSIVE SumUnmet(_, _, _)
SumUnmet(symbols, lhsConstraintsMap, buffer) ==
    IF symbols = {} THEN 0
    ELSE LET ch == CHOOSE c \in symbols : TRUE
         IN  MaxOf(0, lhsConstraintsMap[ch].minCount - CountChar(buffer, ch))
             + SumUnmet(symbols \ {ch}, lhsConstraintsMap, buffer)

\* C27: the search prunes a partial left side for lack of remaining length
\* only if no completion to lhsLen characters could meet the minimum counts
\* still unmet, every symbol already in the buffer, digit or operator,
\* counting towards its minimum.
C27_SafePruning ==
    [][searchStep' = "prune" =>
          SumUnmet(DOMAIN constraintsMap, constraintsMap, current)
              > lhsLength - Len(current)]_vars

====
